---- MODULE Spec2Model ----
(***************************************************************************)
(* Model of the draft compiler of arkham-versus-draft (src/app.py): the    *)
(* catalog caches, the request parsers, the custom-card pool               *)
(* (convert_to_draftmancer_format), the three bucket generators and the    *)
(* explicit-include merge (add_cards_to_include_to_lists), run as the      *)
(* routes /draft, /draft-now and /get-draft-content run them.              *)
(*                                                                         *)
(* Text is modelled as sequences of one-character strings, so that         *)
(* lower-casing, stripping, splitting and integer parsing are computed.    *)
(* An optional value (None or a missing key) is the empty sequence.        *)
(***************************************************************************)
EXTENDS Integers, Sequences, FiniteSets, TLC

VARIABLES
    packs,                  \* packs cache (load_cached_packs): sequence of pack records
    cards,                  \* cards cache (get_arkham_cards): sequence of card records
    unavailable,            \* the pack codes whose card list get_pack_cards cannot load
    route_cards,            \* the card list the route read: arkham_cards = get_arkham_cards()
    pc,                     \* position of the request handler
    req,                    \* the request being served
    excluded_cards,         \* parse_excluded_cards(...)
    cards_to_include,       \* parse_cards_to_include(...): sequence of entries in dict order
    draftmancer_data,       \* convert_to_draftmancer_format(...)
    investigators_cards,    \* Investigators bucket
    basic_weaknesses_cards, \* BasicWeaknesses bucket
    player_cards,           \* PlayerCards bucket
    response,               \* what the route returned
    rerun                   \* a second run of the priority resolvers (resolver specification)

vars == << packs, cards, unavailable, route_cards, pc, req, excluded_cards, cards_to_include, draftmancer_data,
           investigators_cards, basic_weaknesses_cards, player_cards, response, rerun >>

----------------------------------------------------------------------------
(* Bounds of the model *)

\* pack cycle_position and position range over 1..MaxPos in the resolver specification
MaxPos == 2
\* per-pack quantity multipliers submitted with a request range over 1..MaxMult
MaxMult == 2
\* the texts of the parser specification have at most MaxLines lines
MaxLines == 2

----------------------------------------------------------------------------
(* Text *)

None == << >>

Digits == <<"0", "1", "2", "3", "4", "5", "6", "7", "8", "9">>

IsDigit(ch) == \E i \in 1..Len(Digits) : Digits[i] = ch

DigitVal(ch) == (CHOOSE i \in 1..Len(Digits) : Digits[i] = ch) - 1

\* str.lower() on the characters the catalog and the requests use
LowerCh(ch) ==
    CASE ch = "A" -> "a" [] ch = "K" -> "k" [] ch = "M" -> "m"
      [] ch = "P" -> "p" [] ch = "R" -> "r" [] ch = "C" -> "c"
      [] ch = "D" -> "d" [] ch = "O" -> "o" [] ch = "E" -> "e"
      [] ch = "H" -> "h" [] ch = "N" -> "n" [] ch = "S" -> "s"
      [] ch = "T" -> "t" [] ch = "U" -> "u"
      [] OTHER -> ch

Lower(s) == [i \in 1..Len(s) |-> LowerCh(s[i])]

\* str.upper() on pack codes (lower-case letters only)
UpperCh(ch) ==
    CASE ch = "c" -> "C" [] ch = "o" -> "O" [] ch = "r" -> "R"
      [] ch = "e" -> "E" [] ch = "d" -> "D" [] ch = "w" -> "W"
      [] ch = "l" -> "L"
      [] OTHER -> ch

Upper(s) == [i \in 1..Len(s) |-> UpperCh(s[i])]

RECURSIVE LStrip(_)
LStrip(s) == IF s # << >> /\ Head(s) = " " THEN LStrip(Tail(s)) ELSE s

RECURSIVE RStrip(_)
RStrip(s) == IF s # << >> /\ s[Len(s)] = " " THEN RStrip(SubSeq(s, 1, Len(s) - 1)) ELSE s

\* str.strip()
Strip(s) == RStrip(LStrip(s))

\* index of the first space of s, 0 when there is none
FirstSpace(s) ==
    IF \E i \in 1..Len(s) : s[i] = " "
    THEN CHOOSE i \in 1..Len(s) : s[i] = " " /\ \A j \in 1..(i - 1) : s[j] # " "
    ELSE 0

\* line.split(' ', 1)
SplitFirstSpace(s) ==
    IF FirstSpace(s) = 0 THEN << s >>
    ELSE << SubSeq(s, 1, FirstSpace(s) - 1), SubSeq(s, FirstSpace(s) + 1, Len(s)) >>

\* whether int(s) succeeds: an optional sign and at least one digit
IsInt(s) ==
    LET body == IF s # << >> /\ Head(s) \in {"-", "+"} THEN Tail(s) ELSE s
    IN  body # << >> /\ \A i \in 1..Len(body) : IsDigit(body[i])

RECURSIVE DigitsVal(_)
DigitsVal(s) == IF s = << >> THEN 0 ELSE 10 * DigitsVal(SubSeq(s, 1, Len(s) - 1)) + DigitVal(s[Len(s)])

\* int(s), for s with IsInt(s)
ToInt(s) ==
    IF Head(s) = "-" THEN 0 - DigitsVal(Tail(s))
    ELSE IF Head(s) = "+" THEN DigitsVal(Tail(s))
    ELSE DigitsVal(s)

\* whether sub occurs in s (Python's `sub in s`)
Contains(s, sub) ==
    \E i \in 0..(Len(s) - Len(sub)) : SubSeq(s, i + 1, i + Len(sub)) = sub

EndsWithB(code) == code # << >> /\ code[Len(code)] = "b"

----------------------------------------------------------------------------
(* Catalog: the data the ingestion layer supplies (ArkhamDB packs and cards) *)

core  == <<"c", "o", "r", "e">>
rcore == <<"r", "c", "o", "r", "e">>
dwl   == <<"d", "w", "l">>
rod   == <<"r", "o", "d">>

PackCodes == <<core, rcore, dwl, rod>>

Pack(code, name, cycle, pos) ==
    [code |-> code, name |-> name, cycle_position |-> cycle, position |-> pos]

\* the pack list with every pack's (cycle_position, position) given by pos[i]
PacksWith(pos) ==
    << Pack(core,  "Core Set",           pos[1][1], pos[1][2]),
       Pack(rcore, "Revised Core Set",   pos[2][1], pos[2][2]),
       Pack(dwl,   "The Dunwich Legacy", pos[3][1], pos[3][2]),
       Pack(rod,   "Read or Die",        pos[4][1], pos[4][2]) >>

\* ArkhamDB's values: core (1,1), rcore (1,2), dwl (2,1), rod (90,1)
ReleasedPacks == PacksWith(<< <<1, 1>>, <<1, 2>>, <<2, 1>>, <<90, 1>> >>)

PackNames == {"Core Set", "Revised Core Set", "The Dunwich Legacy", "Read or Die"}

\* a card record; its quantity is kept as << n >>, None being "quantity": null
Card(code, name, pack, type, subtype, xp, quantity) ==
    [code |-> code, name |-> name, pack_code |-> pack, type_code |-> type,
     subtype_code |-> subtype, xp |-> xp, quantity |-> << quantity >>,
     restrictions |-> FALSE, bonded_to |-> None, bonded_cards |-> << >>,
     deck_requirements |-> << >>, linked_to_code |-> None,
     imagesrc |-> <<"/img">> \o code, backimagesrc |-> None]

Ro == <<"R", "o">>      \* an investigator printed in core, rcore and dwl (parallel)
Kn == <<"K", "n">>      \* a level-0 asset printed in core and rcore
Am == <<"A", "m">>      \* a basic weakness printed in core, rcore and dwl
Rs == <<"R", "s">>      \* the investigator's signature asset (restricted)
Mi == <<"M", "i">>      \* a host asset with a bonded card
Me == <<"M", "e">>      \* the bonded card, printed in another pack than its host
Pa == <<"P", "a">>      \* an asset that exists only with xp > 0
Ca == <<"C", "a">>      \* a double-sided asset: the front, linked to its 'b' record
Cb == <<"C", "b">>      \* the 'b' record that is the back of Ca
Na == <<"N", "a">>      \* an asset linked to a record whose code has no 'b' suffix
Da == <<"D", "a">>      \* an asset whose linked_to_code names no card of the catalog
Sa == <<"S", "a">>      \* a 'b'-suffixed card no card links to

\* the full card list (the /api/public/cards/ payload); bxp is the xp of the bonded card
CardsWith(bxp) ==
    << [Card(<<"0", "1">>, Ro, core, "investigator", "", None, 1)
           EXCEPT !.deck_requirements = << <<"0", "5">>, <<"2", "2">> >>,
                  !.backimagesrc = <<"/back01">>],
       Card(<<"0", "2">>, Kn, core, "asset", "", <<0>>, 1),
       Card(<<"0", "3">>, Am, core, "treachery", "basicweakness", None, 1),
       [Card(<<"0", "5">>, Rs, core, "asset", "", None, 1) EXCEPT !.restrictions = TRUE],
       [Card(<<"1", "1">>, Ro, rcore, "investigator", "", None, 1)
           EXCEPT !.deck_requirements = << <<"1", "5">>, <<"2", "1">>, <<"2", "5">>,
                                           <<"2", "5", "b">>, <<"9", "9">> >>,
                  !.backimagesrc = <<"/back11">>],
       Card(<<"1", "2">>, Kn, rcore, "asset", "", <<0>>, 2),
       Card(<<"1", "3">>, Am, rcore, "treachery", "basicweakness", None, 1),
       [Card(<<"1", "5">>, Rs, rcore, "asset", "", None, 1) EXCEPT !.restrictions = TRUE],
       [Card(<<"2", "1">>, Mi, dwl, "asset", "", <<0>>, 1)
           EXCEPT !.bonded_cards = << <<"9", "1">>, <<"9", "8">> >>],
       Card(<<"2", "2">>, Pa, dwl, "asset", "", <<1>>, 2),
       Card(<<"2", "3">>, Am, dwl, "treachery", "basicweakness", None, 1),
       [Card(<<"2", "4">>, Ro, dwl, "investigator", "", None, 1)
           EXCEPT !.backimagesrc = <<"/back24">>],
       [Card(<<"2", "5">>, Ca, dwl, "asset", "", None, 1)
           EXCEPT !.linked_to_code = <<"2", "5", "b">>, !.backimagesrc = <<"/back25">>],
       Card(<<"2", "5", "b">>, Cb, dwl, "asset", "", None, 1),
       [Card(<<"2", "6">>, Na, dwl, "asset", "", None, 1)
           EXCEPT !.linked_to_code = <<"2", "2">>, !.backimagesrc = <<"/back26">>],
       [Card(<<"2", "7">>, Da, dwl, "asset", "", None, 1)
           EXCEPT !.linked_to_code = <<"2", "7", "b">>],
       Card(<<"2", "8", "b">>, Sa, dwl, "asset", "", None, 1),
       [Card(<<"9", "1">>, Me, rod, "asset", "", bxp, 3) EXCEPT !.bonded_to = Mi] >>

\* records a pack's own list carries beyond the pack's cards of the full list: an
\* encounter card the full list does not have, and a second record of a card
EncounterCards(pack_code) ==
    IF pack_code = dwl
    THEN << Card(<<"2", "9">>, <<"E", "c">>, dwl, "treachery", "", None, 1) >>
    ELSE IF pack_code = core
    THEN << Card(<<"0", "2">>, Kn, core, "asset", "", <<0>>, 2) >>
    ELSE << >>

\* the xp values the catalog may give the bonded card
BondedXp == {None, <<1>>}

Catalogs == {CardsWith(bxp) : bxp \in BondedXp}

----------------------------------------------------------------------------
(* Helpers over sequences *)

Range(s) == {s[i] : i \in DOMAIN s}

\* next(c for c in arkham_cards if c.get('code') == code), as << >> or << card >>
FindCard(arkham_cards, code) ==
    IF \E i \in DOMAIN arkham_cards : arkham_cards[i].code = code
    THEN << arkham_cards[CHOOSE i \in DOMAIN arkham_cards :
                /\ arkham_cards[i].code = code
                /\ \A j \in 1..(i - 1) : arkham_cards[j].code # code] >>
    ELSE << >>

\* a dict whose assignment leaves an existing key alone
KeepFirst(d, entry) ==
    IF \E i \in DOMAIN d : d[i].key = entry.key THEN d ELSE Append(d, entry)

\* a dict assignment d[key] = entry on an insertion-ordered dict kept as a sequence
DictPut(d, entry) ==
    IF \E i \in DOMAIN d : d[i].key = entry.key
    THEN [i \in DOMAIN d |-> IF d[i].key = entry.key THEN entry ELSE d[i]]
    ELSE Append(d, entry)

----------------------------------------------------------------------------
(* Request parsers *)

\* one line of parse_excluded_cards: the names the line adds to the exclude set
ExcludedOfLine(raw) ==
    LET line  == Strip(raw)
        parts == SplitFirstSpace(line)
    IN  IF line = << >> THEN {}
        ELSE IF Len(parts) >= 2
             THEN IF IsInt(parts[1])
                  THEN IF Strip(parts[2]) # << >> THEN {Lower(Strip(parts[2]))} ELSE {}
                  ELSE {Lower(line)}
             ELSE {Lower(line)}

parse_excluded_cards(excluded_text) ==
    UNION {ExcludedOfLine(excluded_text[i]) : i \in DOMAIN excluded_text}

\* card_name_to_data[key] after the first n cards of arkham_cards, as << >> or << card >>
RECURSIVE NameToData(_, _, _)
NameToData(arkham_cards, n, key) ==
    IF n = 0 THEN << >>
    ELSE LET existing == NameToData(arkham_cards, n - 1, key)
             card     == arkham_cards[n]
         IN  IF card.name = << >> \/ Lower(card.name) # key THEN existing
             ELSE IF existing = << >> THEN << card >>
             ELSE IF existing[1].bonded_to # None /\ card.bonded_to = None THEN << card >>
             ELSE IF /\ existing[1].bonded_to = None /\ card.bonded_to = None
                     /\ card.type_code = "investigator"
                     /\ card.deck_requirements # << >>
                  THEN << card >>
             ELSE existing

card_name_to_data(arkham_cards, key) == NameToData(arkham_cards, Len(arkham_cards), key)

\* the card_type parse_cards_to_include gives a looked-up card
IncludeType(card_data) ==
    IF card_data = << >> THEN "player"
    ELSE IF card_data[1].type_code = "investigator" THEN "investigator"
    ELSE IF card_data[1].subtype_code = "basicweakness" THEN "basicweakness"
    ELSE "player"

\* cards_to_include after the first n lines of include_text
RECURSIVE ParseInclude(_, _, _)
ParseInclude(include_text, n, arkham_cards) ==
    IF n = 0 THEN << >>
    ELSE LET sofar == ParseInclude(include_text, n - 1, arkham_cards)
             line  == Strip(include_text[n])
             parts == SplitFirstSpace(line)
         IN  IF line = << >> \/ Len(parts) < 2 THEN sofar
             ELSE IF ~IsInt(parts[1]) \/ Strip(parts[2]) = << >> THEN sofar
             ELSE LET card_name == Strip(parts[2])
                      card_data == card_name_to_data(arkham_cards, Lower(card_name))
                  IN  DictPut(sofar, [key |-> Lower(card_name), name |-> card_name,
                                      quantity |-> ToInt(parts[1]),
                                      type |-> IncludeType(card_data),
                                      data |-> card_data])

parse_cards_to_include(include_text, arkham_cards) ==
    ParseInclude(include_text, Len(include_text), arkham_cards)

----------------------------------------------------------------------------
(* The custom-card pool: convert_to_draftmancer_format *)

ARKHAMDB_BASE_URL == "https://arkhamdb.com"

format_image_url(image_src) ==
    IF image_src = << >> THEN << >>
    ELSE IF image_src[1] = "http" THEN image_src
    ELSE << ARKHAMDB_BASE_URL >> \o image_src

TYPE_CODE_MAP(type_code) ==
    CASE type_code = "investigator" -> "Creature"
      [] type_code = "asset"        -> "Artifact"
      [] type_code = "event"        -> "Instant"
      [] type_code = "skill"        -> "Sorcery"
      [] type_code = "treachery"    -> "Enchantment"
      [] OTHER                      -> "Instant"

\* f"AH{pack_code.upper()}"
SetLabel(pack_code) == <<"A", "H">> \o Upper(pack_code)

\* the codes of the selected pack names (unknown names are dropped)
selected_pack_codes(packs_data, selected_pack_names) ==
    {packs_data[i].code : i \in {j \in DOMAIN packs_data : packs_data[j].name \in selected_pack_names}}

required_card_codes(arkham_cards, selected) ==
    UNION {(IF arkham_cards[i].type_code = "investigator"
            THEN Range(arkham_cards[i].deck_requirements) ELSE {})
           \cup {b \in Range(arkham_cards[i].bonded_cards) : b # << >>}
           : i \in {j \in DOMAIN arkham_cards : arkham_cards[j].pack_code \in selected}}

\* whether a card is in scope: from a selected pack or required by one that is
InScope(card, arkham_cards, selected) ==
    card.pack_code \in selected \/ card.code \in required_card_codes(arkham_cards, selected)

\* xp is None or xp <= 0
XpAllowed(card) == card.xp = None \/ card.xp[1] <= 0

\* any(c.linked_to_code == code for c in arkham_cards if c.pack_code in selected)
front_card_exists(code, arkham_cards, selected) ==
    \E i \in DOMAIN arkham_cards :
        arkham_cards[i].pack_code \in selected /\ arkham_cards[i].linked_to_code = code

\* a filter that also drops a card one of whose references names no card
KeepOnlyResolved(card, arkham_cards, selected) ==
    /\ InScope(card, arkham_cards, selected)
    /\ XpAllowed(card)
    /\ EndsWithB(card.code) => ~front_card_exists(card.code, arkham_cards, selected)
    /\ \A code \in Range(card.deck_requirements) \cup Range(card.bonded_cards) :
          FindCard(arkham_cards, code) # << >>

KeepInPool(card, arkham_cards, selected) ==
    /\ InScope(card, arkham_cards, selected)
    /\ XpAllowed(card)
    /\ EndsWithB(card.code) => ~front_card_exists(card.code, arkham_cards, selected)

filtered_cards(arkham_cards, selected) ==
    SelectSeq(arkham_cards, LAMBDA card : KeepInPool(card, arkham_cards, selected))

\* a lookup that never finds a linked back
NoLinkedBack(card, arkham_cards, selected) == << >>

\* linked_back_lookup.get(card.code), as << >> or << back card >>
linked_back_lookup(card, arkham_cards, selected) ==
    IF /\ InScope(card, arkham_cards, selected)
       /\ card.linked_to_code # None
       /\ EndsWithB(card.linked_to_code)
    THEN FindCard(arkham_cards, card.linked_to_code)
    ELSE << >>

bonded_name_conflicts(filtered) ==
    {name \in {filtered[i].name : i \in DOMAIN filtered} :
        Cardinality({i \in DOMAIN filtered :
                        filtered[i].bonded_to # None /\ filtered[i].name = name}) > 1}

\* f"{name} ({code})"
WithCode(name, code) == name \o <<" ", "(">> \o code \o <<")">>

\* the names of the first n deck-requirement codes that resolve in the catalog
RECURSIVE RequirementNames(_, _, _)
RequirementNames(codes, n, arkham_cards) ==
    IF n = 0 THEN << >>
    ELSE LET related_card == FindCard(arkham_cards, codes[n])
         IN  RequirementNames(codes, n - 1, arkham_cards)
                 \o (IF related_card # << >> THEN << related_card[1].name >> ELSE << >>)

\* a host that lists every bonded card under its bare name
BareName(bonded_card, bonded_code, conflicts) == bonded_card.name

\* the name under which a host lists one bonded card
BondedName(bonded_card, bonded_code, conflicts) ==
    IF bonded_card.bonded_to # None /\ bonded_card.name \in conflicts
    THEN WithCode(bonded_card.name, bonded_code)
    ELSE bonded_card.name

RECURSIVE BondedNames(_, _, _, _)
BondedNames(codes, n, arkham_cards, conflicts) ==
    IF n = 0 THEN << >>
    ELSE LET bonded_card == IF codes[n] # << >> THEN FindCard(arkham_cards, codes[n]) ELSE << >>
         IN  BondedNames(codes, n - 1, arkham_cards, conflicts)
                 \o (IF bonded_card # << >>
                     THEN << BondedName(bonded_card[1], codes[n], conflicts) >>
                     ELSE << >>)

\* the nested back record, as << >> or << record >>
BackRecord(card, image_src) ==
    << [name   |-> card.name \o <<" ", "-", " ", "b", "a", "c", "k">>,
        image  |-> format_image_url(image_src),
        type   |-> TYPE_CODE_MAP(card.type_code),
        layout |-> card.type_code = "investigator"] >>

\* one custom-card object of the pool (the body of the loop over filtered_cards)
DraftmancerCard(card, arkham_cards, selected, conflicts) ==
    LET card_name == IF card.bonded_to # None /\ card.name \in conflicts
                     THEN WithCode(card.name, card.code) ELSE card.name
        related   == (IF card.type_code = "investigator"
                      THEN RequirementNames(card.deck_requirements,
                                            Len(card.deck_requirements), arkham_cards)
                      ELSE << >>)
                     \o BondedNames(card.bonded_cards, Len(card.bonded_cards),
                                    arkham_cards, conflicts)
        back_card == linked_back_lookup(card, arkham_cards, selected)
    IN  [name             |-> card_name,
         image            |-> format_image_url(card.imagesrc),
         type             |-> TYPE_CODE_MAP(card.type_code),
         set              |-> SetLabel(card.pack_code),
         collector_number |-> card.code,
         layout           |-> card.type_code = "investigator",
         related_cards    |-> related,
         draft_effects    |-> [FaceUp   |-> card.type_code = "investigator",
                               AddCards |-> related],
         back             |-> IF back_card # << >> THEN BackRecord(card, back_card[1].imagesrc)
                              ELSE IF card.backimagesrc # None
                                   THEN BackRecord(card, card.backimagesrc)
                              ELSE << >>]

\* convert_to_draftmancer_format; packs_data = << >> is the pack data being unavailable
convert_to_draftmancer_format(arkham_cards, selected_pack_names, packs_data) ==
    IF packs_data = << >>
    THEN [error |-> "Unable to load pack data", cards |-> << >>, selected_pack_codes |-> {}]
    ELSE LET selected == selected_pack_codes(packs_data, selected_pack_names)
             filtered == filtered_cards(arkham_cards, selected)
             conflicts == bonded_name_conflicts(filtered)
         IN  [error |-> "",
              cards |-> [i \in DOMAIN filtered |->
                            DraftmancerCard(filtered[i], arkham_cards, selected, conflicts)],
              selected_pack_codes |-> selected]

----------------------------------------------------------------------------
(* Bucket entries.  A bucket line is f"{quantity} {name} (AH{PACK}) {code}";  *)
(* an entry is kept as the record of its four parts and Line gives its text. *)

RECURSIVE NatStr(_)
NatStr(n) == IF n < 10 THEN << Digits[n + 1] >> ELSE NatStr(n \div 10) \o << Digits[(n % 10) + 1] >>

\* str(n)
IntStr(n) == IF n < 0 THEN <<"-">> \o NatStr(0 - n) ELSE NatStr(n)

Entry(quantity, name, pack_code, collector_number) ==
    [quantity |-> quantity, name |-> name, set |-> SetLabel(pack_code),
     collector_number |-> collector_number]

Line(e) ==
    IntStr(e.quantity) \o <<" ">> \o e.name \o <<" ", "(">> \o e.set \o <<")", " ">>
        \o e.collector_number

\* index of the first occurrence of sub in s, 0 when there is none
Find(s, sub) ==
    IF Contains(s, sub)
    THEN 1 + CHOOSE i \in 0..(Len(s) - Len(sub)) :
                /\ SubSeq(s, i + 1, i + Len(sub)) = sub
                /\ \A j \in 0..(i - 1) : SubSeq(s, j + 1, j + Len(sub)) # sub
    ELSE 0

\* x.split(' ', 1)[1].split(' (AH')[0]: the sort key of a bucket line
NameKey(e) ==
    LET rest == SplitFirstSpace(Line(e))[2]
        at   == Find(rest, <<" ", "(", "A", "H">>)
    IN  IF at = 0 THEN rest ELSE SubSeq(rest, 1, at - 1)

\* x.split('(AH')[1].split(')')[0]: the second sort key of an Investigators line
SetKey(e) ==
    LET line  == Line(e)
        rest  == SubSeq(line, Find(line, <<"(", "A", "H">>) + 3, Len(line))
        close == Find(rest, <<")">>)
    IN  IF close = 0 THEN rest ELSE SubSeq(rest, 1, close - 1)

\* code points of the characters bucket lines are made of, in Python's str order
Ord(ch) ==
    CASE ch = " " -> 32 [] ch = "(" -> 40 [] ch = ")" -> 41 [] ch = "-" -> 45
      [] IsDigit(ch) -> 48 + DigitVal(ch)
      [] ch = "A" -> 65 [] ch = "C" -> 67 [] ch = "D" -> 68 [] ch = "E" -> 69
      [] ch = "H" -> 72 [] ch = "I" -> 73 [] ch = "K" -> 75 [] ch = "L" -> 76
      [] ch = "M" -> 77
      [] ch = "N" -> 78
      [] ch = "O" -> 79 [] ch = "P" -> 80 [] ch = "R" -> 82 [] ch = "S" -> 83
      [] ch = "T" -> 84 [] ch = "U" -> 85 [] ch = "W" -> 87
      [] ch = "a" -> 97 [] ch = "b" -> 98 [] ch = "c" -> 99 [] ch = "e" -> 101
      [] ch = "i" -> 105 [] ch = "k" -> 107 [] ch = "m" -> 109 [] ch = "n" -> 110
      [] ch = "o" -> 111 [] ch = "p" -> 112 [] ch = "r" -> 114 [] ch = "s" -> 115
      [] ch = "d" -> 100 [] ch = "l" -> 108 [] ch = "w" -> 119
      [] ch = "x" -> 120 [] ch = "y" -> 121 [] ch = "z" -> 122
      [] OTHER -> 127

\* a < b for Python strings
RECURSIVE StrLess(_, _)
StrLess(a, b) ==
    IF b = << >> THEN FALSE
    ELSE IF a = << >> THEN TRUE
    ELSE IF Ord(Head(a)) # Ord(Head(b)) THEN Ord(Head(a)) < Ord(Head(b))
    ELSE StrLess(Tail(a), Tail(b))

\* the order of the two sort keys the generators use: by name, or by (name, set)
EntryLess(key, a, b) ==
    IF key = "name" THEN StrLess(NameKey(a), NameKey(b))
    ELSE \/ StrLess(NameKey(a), NameKey(b))
         \/ NameKey(a) = NameKey(b) /\ StrLess(SetKey(a), SetKey(b))

\* insertion of x into the sorted sequence s after every element not greater than it
RECURSIVE InsertSorted(_, _, _)
InsertSorted(s, x, key) ==
    IF s = << >> THEN << x >>
    ELSE IF EntryLess(key, x, s[Len(s)])
         THEN Append(InsertSorted(SubSeq(s, 1, Len(s) - 1), x, key), s[Len(s)])
    ELSE Append(s, x)

\* list.sort(key=...): a stable sort
RECURSIVE StableSort(_, _)
StableSort(s, key) ==
    IF s = << >> THEN << >>
    ELSE InsertSorted(StableSort(SubSeq(s, 1, Len(s) - 1), key), s[Len(s)], key)

----------------------------------------------------------------------------
(* The bucket generators *)

\* get_pack_cards(pack_code): the card list of one pack
get_pack_cards(pack_code, catalog) ==
    SelectSeq(catalog, LAMBDA card : card.pack_code = pack_code) \o EncounterCards(pack_code)

\* player_card_codes: the codes of the full card list
player_card_codes(main_cards) == {main_cards[i].code : i \in DOMAIN main_cards} \ {<< >>}

\* pack_code_to_pack.get(pack_code, {}), the empty dict read through .get()
PackData(packs_data, pack_code) ==
    IF \E i \in DOMAIN packs_data : packs_data[i].code = pack_code
    THEN packs_data[CHOOSE i \in DOMAIN packs_data :
            /\ packs_data[i].code = pack_code
            /\ \A j \in (i + 1)..Len(packs_data) : packs_data[j].code # pack_code]
    ELSE [code |-> None, name |-> "", cycle_position |-> 0, position |-> 0]

\* the (card, pack_code) pairs the nested loops of a generator visit, for the first n packs
RECURSIVE Visits(_, _, _)
Visits(order, n, catalog) ==
    IF n = 0 THEN << >>
    ELSE LET pack_cards == get_pack_cards(order[n], catalog)
         IN  Visits(order, n - 1, catalog)
                 \o [i \in DOMAIN pack_cards |-> [card |-> pack_cards[i], pack_code |-> order[n]]]

\* a normalisation that keeps core and rcore apart
KeepPackCode(pack_code) == pack_code

normalize_pack_code(pack_code) == IF pack_code \in {core, rcore} THEN core ELSE pack_code

\* a comparison that forgets the position once the cycles are equal
LaterCycle(new_pack, current_pack) ==
    new_pack.cycle_position > current_pack.cycle_position

\* a comparison that also replaces on an equal position
LaterOrSamePack(new_pack, current_pack) ==
    \/ new_pack.cycle_position > current_pack.cycle_position
    \/ /\ new_pack.cycle_position = current_pack.cycle_position
       /\ new_pack.position >= current_pack.position

\* a comparison that replaces whenever the cycle is not lower
NotEarlierCycle(new_pack, current_pack) ==
    new_pack.cycle_position >= current_pack.cycle_position

\* (new_cycle > current_cycle) or (new_cycle == current_cycle and new_pos > current_pos)
LaterPack(new_pack, current_pack) ==
    \/ new_pack.cycle_position > current_pack.cycle_position
    \/ /\ new_pack.cycle_position = current_pack.cycle_position
       /\ new_pack.position > current_pack.position

\* a priority logic without the revised core rule
ReplacesByReleaseOnly(pack_code, pack_data, current_pack) == LaterPack(pack_data, current_pack)

\* whether generate_investigators_cards replaces the printing it holds for a name+pack
InvestigatorReplaces(pack_code, pack_data, current_pack) ==
    IF pack_code = rcore /\ current_pack.code = core THEN TRUE
    ELSE IF current_pack.code = rcore /\ pack_code = core THEN FALSE
    ELSE LaterPack(pack_data, current_pack)

\* whether generate_basic_weaknesses_cards replaces the printing it holds for a name
WeaknessReplaces(pack_code, pack_data, current_pack) ==
    IF pack_code = rcore /\ current_pack.code # rcore THEN TRUE
    ELSE IF current_pack.code = rcore /\ pack_code # rcore THEN FALSE
    ELSE LaterPack(pack_data, current_pack)

\* the checks of generate_investigators_cards that skip a pack card
InvestigatorCandidate(card, main_cards, excluded) ==
    /\ card.code \in player_card_codes(main_cards)
    /\ card.bonded_to = None
    /\ card.type_code = "investigator"
    /\ card.name # << >>
    /\ Lower(card.name) \notin excluded

\* the checks of generate_basic_weaknesses_cards that skip a pack card
WeaknessCandidate(card, main_cards, excluded) ==
    /\ card.code \in player_card_codes(main_cards)
    /\ card.bonded_to = None
    /\ card.subtype_code = "basicweakness"
    /\ card.name # << >>
    /\ Lower(card.name) \notin excluded

\* the checks of generate_player_cards that skip a pack card
PlayerCandidate(card, main_cards, excluded) ==
    /\ card.code \in player_card_codes(main_cards)
    /\ card.bonded_to = None
    /\ card.type_code # "investigator"
    /\ ~card.restrictions
    /\ card.subtype_code # "basicweakness"
    /\ ~(card.xp # None /\ card.xp[1] > 0)
    /\ Lower(card.name) \notin excluded

\* dict[slot] = (card, pack_data) on the insertion-ordered dict of chosen printings
PutChosen(chosen, name, slot, card, pack_data) ==
    LET new == [name |-> name, slot |-> slot, card |-> card, pack |-> pack_data]
    IN  IF \E i \in DOMAIN chosen : chosen[i].name = name /\ chosen[i].slot = slot
        THEN [i \in DOMAIN chosen |->
                IF chosen[i].name = name /\ chosen[i].slot = slot THEN new ELSE chosen[i]]
        ELSE Append(chosen, new)

\* cards_by_name_and_pack after the first n visits
RECURSIVE InvestigatorsChosen(_, _, _, _, _)
InvestigatorsChosen(visits, n, main_cards, packs_data, excluded) ==
    IF n = 0 THEN << >>
    ELSE LET chosen    == InvestigatorsChosen(visits, n - 1, main_cards, packs_data, excluded)
             card      == visits[n].card
             pack_code == visits[n].pack_code
             pack_data == PackData(packs_data, pack_code)
             slot      == normalize_pack_code(pack_code)
             held      == {i \in DOMAIN chosen :
                              chosen[i].name = card.name /\ chosen[i].slot = slot}
         IN  IF ~InvestigatorCandidate(card, main_cards, excluded) THEN chosen
             ELSE IF held = {} THEN PutChosen(chosen, card.name, slot, card, pack_data)
             ELSE IF InvestigatorReplaces(pack_code, pack_data, chosen[CHOOSE i \in held : TRUE].pack)
                  THEN PutChosen(chosen, card.name, slot, card, pack_data)
             ELSE chosen

\* best_cards_by_name after the first n visits
RECURSIVE WeaknessesChosen(_, _, _, _, _)
WeaknessesChosen(visits, n, main_cards, packs_data, excluded) ==
    IF n = 0 THEN << >>
    ELSE LET chosen    == WeaknessesChosen(visits, n - 1, main_cards, packs_data, excluded)
             card      == visits[n].card
             pack_code == visits[n].pack_code
             pack_data == PackData(packs_data, pack_code)
             held      == {i \in DOMAIN chosen : chosen[i].name = card.name}
         IN  IF ~WeaknessCandidate(card, main_cards, excluded) THEN chosen
             ELSE IF held = {} THEN PutChosen(chosen, card.name, None, card, pack_data)
             ELSE IF WeaknessReplaces(pack_code, pack_data, chosen[CHOOSE i \in held : TRUE].pack)
                  THEN PutChosen(chosen, card.name, None, card, pack_data)
             ELSE chosen

\* the items of the nested dict, name by name in insertion order
RECURSIVE GroupedByName(_)
GroupedByName(chosen) ==
    IF chosen = << >> THEN << >>
    ELSE SelectSeq(chosen, LAMBDA c : c.name = chosen[1].name)
             \o GroupedByName(SelectSeq(chosen, LAMBDA c : c.name # chosen[1].name))

ChosenEntries(chosen) ==
    [i \in DOMAIN chosen |-> Entry(1, chosen[i].name, chosen[i].card.pack_code, chosen[i].card.code)]

\* generate_investigators_cards; order is the iteration order of the set selected_pack_codes
generate_investigators_cards(order, excluded, main_cards, packs_data) ==
    LET visits == Visits(order, Len(order), main_cards)
    IN  StableSort(ChosenEntries(GroupedByName(
            InvestigatorsChosen(visits, Len(visits), main_cards, packs_data, excluded))),
            "name_set")

\* generate_basic_weaknesses_cards
generate_basic_weaknesses_cards(order, excluded, main_cards, packs_data) ==
    LET visits == Visits(order, Len(order), main_cards)
    IN  StableSort(ChosenEntries(
            WeaknessesChosen(visits, Len(visits), main_cards, packs_data, excluded)),
            "name")

\* a generator that ignores the quantity chosen for a pack
NoMultiplier(pack_code, pack_quantities, packs_data) == 1

\* pack_quantities.get(pack_code_to_name.get(pack_code, pack_code), 1)
pack_multiplier(pack_code, pack_quantities, packs_data) ==
    LET pack_name == PackData(packs_data, pack_code).name
    IN  IF pack_name \in DOMAIN pack_quantities THEN pack_quantities[pack_name] ELSE 1

\* card_set_quantities after the first n visits, as entries in insertion order
RECURSIVE PlayerQuantities(_, _, _, _, _, _)
PlayerQuantities(visits, n, main_cards, packs_data, pack_quantities, excluded) ==
    IF n = 0 THEN << >>
    ELSE LET sofar == PlayerQuantities(visits, n - 1, main_cards, packs_data,
                                       pack_quantities, excluded)
             card  == visits[n].card
             final_quantity ==
                 card.quantity[1] * pack_multiplier(visits[n].pack_code, pack_quantities, packs_data)
             key   == Entry(0, card.name, visits[n].pack_code, card.code)
             held  == {i \in DOMAIN sofar : [sofar[i] EXCEPT !.quantity = 0] = key}
         IN  IF ~PlayerCandidate(card, main_cards, excluded) THEN sofar
             ELSE IF card.name = << >> \/ final_quantity <= 0 THEN sofar
             ELSE IF held = {} THEN Append(sofar, [key EXCEPT !.quantity = final_quantity])
             ELSE [i \in DOMAIN sofar |->
                     IF i \in held THEN [sofar[i] EXCEPT !.quantity = @ + final_quantity]
                     ELSE sofar[i]]

\* whether generate_player_cards raises: base_quantity * pack_multiplier with the
\* quantity of a candidate record null (TypeError)
player_cards_raise(order, excluded, main_cards) ==
    LET visits == Visits(order, Len(order), main_cards)
    IN  \E i \in DOMAIN visits :
            /\ PlayerCandidate(visits[i].card, main_cards, excluded)
            /\ visits[i].card.quantity = None

\* generate_player_cards
generate_player_cards(order, pack_quantities, excluded, main_cards, packs_data) ==
    LET visits == Visits(order, Len(order), main_cards)
    IN  StableSort(PlayerQuantities(visits, Len(visits), main_cards, packs_data,
                                    pack_quantities, excluded), "name")

----------------------------------------------------------------------------
(* The explicit-include merge: add_cards_to_include_to_lists *)

CUSTOM == <<"C", "U", "S", "T", "O", "M">>

\* the related cards an included card newly pulls in, among its first n related codes
RECURSIVE NewRelated(_, _, _, _)
NewRelated(codes, n, arkham_cards, added) ==
    IF n = 0 THEN << >>
    ELSE LET sofar        == NewRelated(codes, n - 1, arkham_cards, added)
             added_now    == added \cup {Lower(sofar[i].name) : i \in DOMAIN sofar}
             related_card == FindCard(arkham_cards, codes[n])
         IN  IF related_card # << >> /\ Lower(related_card[1].name) \notin added_now
             THEN Append(sofar, related_card[1])
             ELSE sofar

\* the codes an included card relates to: deck requirements (investigators), then bonded cards
RelatedCodes(card_data) ==
    (IF card_data.type_code = "investigator" THEN card_data.deck_requirements ELSE << >>)
        \o SelectSeq(card_data.bonded_cards, LAMBDA code : code # << >>)

\* the custom-card object built for an included card
IncludedCustomCard(card_name, card_data, related) ==
    [name             |-> card_name,
     image            |-> format_image_url(card_data.imagesrc),
     type             |-> TYPE_CODE_MAP(card_data.type_code),
     set              |-> SetLabel(card_data.pack_code),
     collector_number |-> card_data.code,
     layout           |-> card_data.type_code = "investigator",
     related_cards    |-> [i \in DOMAIN related |-> related[i].name],
     draft_effects    |-> [FaceUp   |-> card_data.type_code = "investigator",
                           AddCards |-> [i \in DOMAIN related |-> related[i].name]],
     back             |-> IF card_data.backimagesrc # None
                          THEN << [BackRecord(card_data, card_data.backimagesrc)[1]
                                      EXCEPT !.name = card_name \o <<" ", "-", " ", "b", "a", "c", "k">>] >>
                          ELSE << >>]

\* the bucket entry of an included card
IncludeEntry(info) ==
    Entry(info.quantity, info.name,
          IF info.data # << >> THEN info.data[1].pack_code ELSE CUSTOM,
          IF info.data # << >> THEN info.data[1].code ELSE <<"0", "0", "1">>)

\* the index of the PlayerCards line an include merges into, 0 when it is appended
ExistingIndex(player, entry) ==
    LET hits == {i \in DOMAIN player :
                    /\ Contains(Line(player[i]), entry.name)
                    /\ Contains(Line(player[i]), <<"(">> \o entry.set \o <<")">>)}
    IN  IF hits = {} THEN 0 ELSE CHOOSE i \in hits : \A j \in hits : i <= j

\* the lists after one include that was not skipped as already added
AddOne(acc, info, arkham_cards) ==
    LET added   == acc.added \cup {info.key}
        related == IF info.data # << >>
                   THEN NewRelated(RelatedCodes(info.data[1]), Len(RelatedCodes(info.data[1])),
                                   arkham_cards, added)
                   ELSE << >>
        custom  == IF info.data # << >>
                   THEN << IncludedCustomCard(info.name, info.data[1], related) >>
                            \o [i \in DOMAIN related |->
                                   IncludedCustomCard(related[i].name, related[i], << >>)]
                   ELSE << >>
        entry   == IncludeEntry(info)
        at      == ExistingIndex(acc.player, entry)
    IN  [added  |-> added \cup {Lower(related[i].name) : i \in DOMAIN related},
         custom |-> acc.custom \o custom,
         investigators |->
             IF info.type = "investigator"
                /\ \A i \in DOMAIN acc.investigators : Line(acc.investigators[i]) # Line(entry)
             THEN Append(acc.investigators, entry) ELSE acc.investigators,
         weaknesses |->
             IF info.type = "basicweakness"
                /\ \A i \in DOMAIN acc.weaknesses : Line(acc.weaknesses[i]) # Line(entry)
             THEN Append(acc.weaknesses, entry) ELSE acc.weaknesses,
         player |->
             IF info.type \in {"investigator", "basicweakness"} THEN acc.player
             ELSE IF at = 0 THEN Append(acc.player, entry)
             ELSE [acc.player EXCEPT ![at].quantity = @ + info.quantity]]

\* the lists after the first n includes
RECURSIVE AddIncludes(_, _, _, _)
AddIncludes(to_include, n, start, arkham_cards) ==
    IF n = 0 THEN start
    ELSE LET acc == AddIncludes(to_include, n - 1, start, arkham_cards)
         IN  IF to_include[n].key \in acc.added THEN acc
             ELSE AddOne(acc, to_include[n], arkham_cards)

\* add_cards_to_include_to_lists; existing_custom_cards is << >> when the route passes none
add_cards_to_include_to_lists(to_include, investigators, weaknesses, player, arkham_cards, existing_custom_cards) ==
    AddIncludes(to_include, Len(to_include),
                [added  |-> {Lower(existing_custom_cards[i].name) : i \in DOMAIN existing_custom_cards},
                 custom |-> << >>,
                 investigators |-> investigators,
                 weaknesses    |-> weaknesses,
                 player        |-> player],
                arkham_cards)

----------------------------------------------------------------------------
(* Requests *)

\* the enumerations of a finite set: the orders in which a Python set may be iterated
Orders(S) ==
    {s \in [1..Cardinality(S) -> S] : \A i, j \in 1..Cardinality(S) : s[i] = s[j] => i = j}

\* the cardsToInclude texts requests carry, as lists of lines
IncludeTexts ==
    { << >>,
      << <<"2", " ", "K", "n">> >>,
      << <<"1", " ", "M", "e">> >>,
      << <<"1", " ", "P", "a">> >>,
      << <<"2", " ", "R", "o">> >>,
      << <<"1", " ", "a", "m">>, <<"x">> >> }

\* the cardsToExclude texts requests carry, as lists of lines
ExcludeTexts ==
    { << >>,
      << <<"K", "N">> >>,
      << <<"1", " ", "a", "m">>, <<"r", "o">> >> }

Routes == {"/draft", "/draft-now", "/get-draft-content"}

NoRequest ==
    [route |-> "", sets |-> {}, order |-> << >>, core_quantity |-> << >>,
     investigatorsPerPack |-> << >>, include |-> << >>, exclude |-> << >>]

NoData == [error |-> "", cards |-> << >>, selected_pack_codes |-> {}]

NoRerun == [order |-> << >>, investigators |-> << >>, weaknesses |-> << >>]

\* text.strip() is empty: every line of the text is blank
BlankText(text) == \A i \in DOMAIN text : Strip(text[i]) = << >>

\* whether int(request.form.get(f'quantity_{pack_name}', 1)) succeeds for every selected pack
quantities_parse(request) ==
    "Core Set" \in request.sets /\ request.core_quantity # << >> => IsInt(request.core_quantity)

\* the selected pack codes, in iteration order, whose card list get_pack_cards loads;
\* for the others it returns [] and the loop over the pack's cards visits nothing
Loaded(order, failing) == SelectSeq(order, LAMBDA pack_code : pack_code \notin failing)

\* pack_quantities: int(request.form.get(f'quantity_{pack_name}', 1)) per selected pack
pack_quantities_of(request) ==
    [name \in request.sets |->
        IF name = "Core Set" /\ request.core_quantity # << >>
        THEN ToInt(request.core_quantity) ELSE 1]

----------------------------------------------------------------------------
(* The routes /draft, /draft-now and /get-draft-content *)

Init ==
    /\ packs = ReleasedPacks
    /\ cards \in Catalogs
    /\ unavailable = {}
    /\ route_cards = << >>
    /\ pc = "idle"
    /\ req = NoRequest
    /\ excluded_cards = {}
    /\ cards_to_include = << >>
    /\ draftmancer_data = NoData
    /\ investigators_cards = << >>
    /\ basic_weaknesses_cards = << >>
    /\ player_cards = << >>
    /\ response = [kind |-> "none"]
    /\ rerun = NoRerun

\* a request arrives: its form fields, and the order the set of pack codes will iterate in
Receive ==
    /\ pc = "idle"
    /\ \E route \in Routes, sets \in SUBSET PackNames, mult \in 1..MaxMult,
          include \in IncludeTexts, exclude \in ExcludeTexts :
         \E order \in Orders(selected_pack_codes(packs, sets)) :
            /\ ("Core Set" \notin sets => mult = 1)
            /\ req' = [route |-> route, sets |-> sets, order |-> order,
                       core_quantity |-> IntStr(mult),
                       investigatorsPerPack |-> IntStr(3),
                       include |-> include, exclude |-> exclude]
    /\ pc' = "received"
    /\ UNCHANGED << packs, cards, unavailable, route_cards, excluded_cards, cards_to_include, draftmancer_data,
                    investigators_cards, basic_weaknesses_cards, player_cards, response, rerun >>

\* the head of a route: the empty-selection check, the parsers, the card data check
ParseRequest ==
    /\ pc = "received"
    /\ IF req.sets = {} /\ BlankText(req.include)
       THEN /\ response' = [kind |-> "error",
                            error |-> "No sets selected and no cards to include specified"]
            /\ pc' = "done"
            /\ UNCHANGED << excluded_cards, cards_to_include, route_cards >>
       ELSE IF ~quantities_parse(req)
       THEN /\ response' = [kind |-> "exception", error |-> "ValueError"]
            /\ pc' = "done"
            /\ UNCHANGED << excluded_cards, cards_to_include, route_cards >>
       ELSE /\ excluded_cards' = parse_excluded_cards(req.exclude)
            /\ cards_to_include' = parse_cards_to_include(req.include, cards)
            /\ IF ~IsInt(req.investigatorsPerPack)
               THEN /\ response' = [kind |-> "exception", error |-> "ValueError"]
                    /\ pc' = "done"
                    /\ UNCHANGED route_cards
               ELSE /\ route_cards' = cards
                    /\ IF cards = << >>
                       THEN /\ response' = [kind |-> "error", error |-> "Unable to load card data"]
                            /\ pc' = "done"
                       ELSE /\ pc' = "convert"
                            /\ UNCHANGED response
    /\ UNCHANGED << packs, cards, unavailable, req, draftmancer_data, investigators_cards,
                    basic_weaknesses_cards, player_cards, rerun >>

\* convert_to_draftmancer_format (get_draft_content skips it when no set is selected)
Convert ==
    /\ pc = "convert"
    /\ LET data == IF req.route = "/get-draft-content" /\ req.sets = {}
                   THEN NoData
                   ELSE convert_to_draftmancer_format(route_cards, req.sets, packs)
       IN  /\ draftmancer_data' = data
           /\ IF data.error # ""
              THEN /\ response' = [kind |-> "error", error |-> data.error]
                   /\ pc' = "done"
              ELSE /\ pc' = "investigators"
                   /\ UNCHANGED response
    /\ UNCHANGED << packs, cards, unavailable, route_cards, req, excluded_cards, cards_to_include,
                    investigators_cards, basic_weaknesses_cards, player_cards, rerun >>

GenInvestigators ==
    /\ pc = "investigators"
    /\ investigators_cards' = generate_investigators_cards(Loaded(req.order, unavailable), excluded_cards,
                                                            cards, packs)
    /\ pc' = "weaknesses"
    /\ UNCHANGED << packs, cards, unavailable, route_cards, req, excluded_cards, cards_to_include, draftmancer_data,
                    basic_weaknesses_cards, player_cards, response, rerun >>

GenWeaknesses ==
    /\ pc = "weaknesses"
    /\ basic_weaknesses_cards' =
           generate_basic_weaknesses_cards(Loaded(req.order, unavailable), excluded_cards,
                                           cards, packs)
    /\ pc' = "players"
    /\ UNCHANGED << packs, cards, unavailable, route_cards, req, excluded_cards, cards_to_include, draftmancer_data,
                    investigators_cards, player_cards, response, rerun >>

GenPlayers ==
    /\ pc = "players"
    /\ IF player_cards_raise(Loaded(req.order, unavailable), excluded_cards, cards)
       THEN /\ response' = IF req.route = "/draft-now"
                            THEN [kind |-> "exception", error |-> "TypeError"]
                            ELSE [kind |-> "error", error |-> "Error generating draft"]
            /\ pc' = "done"
            /\ UNCHANGED player_cards
       ELSE /\ player_cards' = generate_player_cards(Loaded(req.order, unavailable),
                                                     pack_quantities_of(req),
                                                     excluded_cards, cards, packs)
            /\ pc' = "include"
            /\ UNCHANGED response
    /\ UNCHANGED << packs, cards, unavailable, route_cards, req, excluded_cards, cards_to_include,
                    draftmancer_data, investigators_cards, basic_weaknesses_cards, rerun >>

\* add_cards_to_include_to_lists and the extension of the pool by its custom cards
Include ==
    /\ pc = "include"
    /\ LET out == add_cards_to_include_to_lists(
                      cards_to_include, investigators_cards, basic_weaknesses_cards,
                      player_cards, route_cards,
                      IF req.route = "/draft" THEN << >> ELSE draftmancer_data.cards)
       IN  /\ investigators_cards' = out.investigators
           /\ basic_weaknesses_cards' = out.weaknesses
           /\ player_cards' = out.player
           /\ draftmancer_data' = [draftmancer_data EXCEPT !.cards = @ \o out.custom]
    /\ pc' = "emit"
    /\ UNCHANGED << packs, cards, unavailable, route_cards, req, excluded_cards, cards_to_include, response, rerun >>

\* generate_draftmancer_file_content: the sections of the document
Emit ==
    /\ pc = "emit"
    /\ response' = [kind            |-> "document",
                    CustomCards     |-> draftmancer_data.cards,
                    Investigators   |-> investigators_cards,
                    BasicWeaknesses |-> basic_weaknesses_cards,
                    PlayerCards     |-> player_cards]
    /\ pc' = "done"
    /\ UNCHANGED << packs, cards, unavailable, route_cards, req, excluded_cards, cards_to_include, draftmancer_data,
                    investigators_cards, basic_weaknesses_cards, player_cards, rerun >>

\* the response is sent; nothing of the request survives it
Respond ==
    /\ pc = "done"
    /\ pc' = "idle"
    /\ req' = NoRequest
    /\ excluded_cards' = {}
    /\ cards_to_include' = << >>
    /\ draftmancer_data' = NoData
    /\ investigators_cards' = << >>
    /\ basic_weaknesses_cards' = << >>
    /\ player_cards' = << >>
    /\ response' = [kind |-> "none"]
    /\ route_cards' = << >>
    /\ UNCHANGED << packs, cards, unavailable, rerun >>

Next ==
    \/ Receive
    \/ ParseRequest
    \/ Convert
    \/ GenInvestigators
    \/ GenWeaknesses
    \/ GenPlayers
    \/ Include
    \/ Emit
    \/ Respond

Spec == Init /\ [][Next]_vars

----------------------------------------------------------------------------
(* The routes under faults: a source that cannot supply the pack list, the  *)
(* full card list or one pack's card list, a record with a null quantity,   *)
(* a pack name no pack carries, and form fields that are not numbers.       *)

\* the pack names requests carry here; the last one is the name of no pack
FaultNames == {"Core Set", "The Dunwich Legacy", "No Such Pack"}

\* the texts of the quantity_<pack name> field
QuantityTexts == {IntStr(1), IntStr(2), <<"x">>}

\* the texts of the investigatorsPerPack field
LayoutTexts == {IntStr(3), <<"x">>}

\* the card list with "quantity": null in the record of 'Mi'
NullQuantityCards == [CardsWith(None) EXCEPT ![9].quantity = None]

\* the card list with one more record of pack dwl, whose type_code is investigator and
\* whose subtype_code is basicweakness
BothKindsCards ==
    Append(CardsWith(None),
           Card(<<"3", "0">>, <<"I", "w">>, dwl, "investigator", "basicweakness", None, 1))

InitFaults ==
    /\ packs \in {ReleasedPacks, << >>}
    /\ cards \in {CardsWith(None), NullQuantityCards, BothKindsCards, << >>}
    /\ unavailable \in {{}, {dwl}}
    /\ route_cards = << >>
    /\ pc = "idle"
    /\ req = NoRequest
    /\ excluded_cards = {}
    /\ cards_to_include = << >>
    /\ draftmancer_data = NoData
    /\ investigators_cards = << >>
    /\ basic_weaknesses_cards = << >>
    /\ player_cards = << >>
    /\ response = [kind |-> "none"]
    /\ rerun = NoRerun

\* a request arrives whose fields need not be well formed
ReceiveFaulty ==
    /\ pc = "idle"
    /\ \E route \in Routes, sets \in SUBSET FaultNames, quantity \in QuantityTexts,
          layout \in LayoutTexts, include \in {<< >>, << <<"1", " ", "M", "e">> >>} :
         \E order \in Orders(selected_pack_codes(packs, sets)) :
            /\ ("Core Set" \notin sets => quantity = IntStr(1))
            /\ req' = [route |-> route, sets |-> sets, order |-> order,
                       core_quantity |-> quantity,
                       investigatorsPerPack |-> layout,
                       include |-> include, exclude |-> << >>]
    /\ pc' = "received"
    /\ UNCHANGED << packs, cards, unavailable, route_cards, excluded_cards, cards_to_include,
                    draftmancer_data, investigators_cards, basic_weaknesses_cards,
                    player_cards, response, rerun >>

NextFaults ==
    \/ ReceiveFaulty
    \/ ParseRequest
    \/ Convert
    \/ GenInvestigators
    \/ GenWeaknesses
    \/ GenPlayers
    \/ Include
    \/ Emit
    \/ Respond

SpecFaults == InitFaults /\ [][NextFaults]_vars

----------------------------------------------------------------------------
(* The priority resolvers on their own: both generators run over one       *)
(* selection, for every (cycle_position, position) the packs may carry,   *)
(* and run again with the set of pack codes iterated in another order.    *)

Positions == (1..MaxPos) \X (1..MaxPos)

ResolverPacks ==
    {PacksWith(<< p1, p2, p3, <<90, 1>> >>) : p1 \in Positions, p2 \in Positions, p3 \in Positions}

ResolverNames == {"Core Set", "Revised Core Set", "The Dunwich Legacy"}

InitResolver ==
    /\ packs \in ResolverPacks
    /\ cards = CardsWith(None)
    /\ unavailable = {}
    /\ route_cards = << >>
    /\ pc = "idle"
    /\ req = NoRequest
    /\ excluded_cards = {}
    /\ cards_to_include = << >>
    /\ draftmancer_data = NoData
    /\ investigators_cards = << >>
    /\ basic_weaknesses_cards = << >>
    /\ player_cards = << >>
    /\ response = [kind |-> "none"]
    /\ rerun = NoRerun

\* a selection, and the two orders its set of pack codes is iterated in
ResolverSelect ==
    /\ pc = "idle"
    /\ \E sets \in SUBSET ResolverNames :
         \E order \in Orders(selected_pack_codes(packs, sets)),
            again \in Orders(selected_pack_codes(packs, sets)) :
            /\ req' = [NoRequest EXCEPT !.route = "resolver", !.sets = sets, !.order = order]
            /\ rerun' = [NoRerun EXCEPT !.order = again]
    /\ pc' = "investigators"
    /\ UNCHANGED << packs, cards, unavailable, route_cards, excluded_cards, cards_to_include, draftmancer_data,
                    investigators_cards, basic_weaknesses_cards, player_cards, response >>

\* the second run of both resolvers
Rerun ==
    /\ pc = "players"
    /\ rerun' = [rerun EXCEPT
                    !.investigators =
                        generate_investigators_cards(rerun.order, excluded_cards, cards, packs),
                    !.weaknesses =
                        generate_basic_weaknesses_cards(rerun.order, excluded_cards, cards, packs)]
    /\ pc' = "rerun"
    /\ UNCHANGED << packs, cards, unavailable, route_cards, req, excluded_cards, cards_to_include, draftmancer_data,
                    investigators_cards, basic_weaknesses_cards, player_cards, response >>

NextResolver ==
    \/ ResolverSelect
    \/ GenInvestigators
    \/ GenWeaknesses
    \/ Rerun

SpecResolver == InitResolver /\ [][NextResolver]_vars

----------------------------------------------------------------------------
(* The conversion on its own: convert_to_draftmancer_format over catalogs   *)
(* in which cards share a name, for every selection of packs.               *)

\* the card list with a second card named 'Me' in pack rod, code 92, which the host
\* 'Mi' lists after 91 and 98; bonded says whether the second card is bonded to 'Mi'
NamesakeCards(bxp, bonded) ==
    Append([CardsWith(bxp) EXCEPT ![9].bonded_cards = Append(@, <<"9", "2">>)],
           [Card(<<"9", "2">>, Me, rod, "asset", "", None, 1)
               EXCEPT !.bonded_to = IF bonded THEN Mi ELSE None])

PoolCatalogs ==
    Catalogs \cup {NamesakeCards(bxp, bonded) : bxp \in BondedXp, bonded \in BOOLEAN}

InitPool ==
    /\ packs = ReleasedPacks
    /\ cards \in PoolCatalogs
    /\ unavailable = {}
    /\ route_cards = cards
    /\ pc = "convert"
    /\ \E sets \in SUBSET PackNames :
         \E order \in Orders(selected_pack_codes(packs, sets)) :
            req = [NoRequest EXCEPT !.route = "/draft", !.sets = sets, !.order = order]
    /\ excluded_cards = {}
    /\ cards_to_include = << >>
    /\ draftmancer_data = NoData
    /\ investigators_cards = << >>
    /\ basic_weaknesses_cards = << >>
    /\ player_cards = << >>
    /\ response = [kind |-> "none"]
    /\ rerun = NoRerun

NextPool == Convert

SpecPool == InitPool /\ [][NextPool]_vars

----------------------------------------------------------------------------
(* The include merge over a catalog in which one card's name is part of     *)
(* another's: card 31 'a' of pack dwl beside 'Ca', 'Da', 'Na' and 'Sa'.      *)

SubstringCards == Append(CardsWith(None), Card(<<"3", "1">>, <<"a">>, dwl, "asset", "", None, 1))

MergeTexts ==
    { << <<"1", " ", "a">> >>,
      << <<"2", " ", "K", "n">> >>,
      << <<"1", " ", "a">>, <<"1", " ", "C", "a">> >> }

InitMerge ==
    /\ packs = ReleasedPacks
    /\ cards = SubstringCards
    /\ unavailable = {}
    /\ route_cards = << >>
    /\ pc = "received"
    /\ \E route \in Routes, sets \in SUBSET PackNames, include \in MergeTexts :
         \E order \in Orders(selected_pack_codes(packs, sets)) :
            req = [route |-> route, sets |-> sets, order |-> order,
                   core_quantity |-> IntStr(1), investigatorsPerPack |-> IntStr(3),
                   include |-> include, exclude |-> << >>]
    /\ excluded_cards = {}
    /\ cards_to_include = << >>
    /\ draftmancer_data = NoData
    /\ investigators_cards = << >>
    /\ basic_weaknesses_cards = << >>
    /\ player_cards = << >>
    /\ response = [kind |-> "none"]
    /\ rerun = NoRerun

NextMerge ==
    \/ ParseRequest
    \/ Convert
    \/ GenInvestigators
    \/ GenWeaknesses
    \/ GenPlayers
    \/ Include
    \/ Emit

SpecMerge == InitMerge /\ [][NextMerge]_vars

----------------------------------------------------------------------------
(* The routes beside a refresh of the caches: every call of get_arkham_cards *)
(* and get_pack_cards tests the age of its cache file and fetches the data   *)
(* anew when the file has expired or another request has replaced it.        *)

\* the card lists the source serves before and after it publishes card 31 'a'
RefreshCatalogs == {CardsWith(None), SubstringCards}

RefreshTexts == { << >>, << <<"1", " ", "a">> >> }

InitRefresh ==
    /\ packs = ReleasedPacks
    /\ cards \in RefreshCatalogs
    /\ unavailable = {}
    /\ route_cards = << >>
    /\ pc = "received"
    /\ \E route \in Routes, sets \in SUBSET {"Core Set", "The Dunwich Legacy"},
          include \in RefreshTexts :
         \E order \in Orders(selected_pack_codes(packs, sets)) :
            req = [route |-> route, sets |-> sets, order |-> order,
                   core_quantity |-> IntStr(1), investigatorsPerPack |-> IntStr(3),
                   include |-> include, exclude |-> << >>]
    /\ excluded_cards = {}
    /\ cards_to_include = << >>
    /\ draftmancer_data = NoData
    /\ investigators_cards = << >>
    /\ basic_weaknesses_cards = << >>
    /\ player_cards = << >>
    /\ response = [kind |-> "none"]
    /\ rerun = NoRerun

\* the caches are replaced by newly fetched data while the request is being served
Refresh ==
    /\ pc \in {"received", "convert", "investigators", "weaknesses", "players", "include"}
    /\ cards' \in RefreshCatalogs \ {cards}
    /\ UNCHANGED << packs, unavailable, route_cards, pc, req, excluded_cards, cards_to_include,
                    draftmancer_data, investigators_cards, basic_weaknesses_cards,
                    player_cards, response, rerun >>

NextRefresh ==
    \/ ParseRequest
    \/ Convert
    \/ GenInvestigators
    \/ GenWeaknesses
    \/ GenPlayers
    \/ Include
    \/ Emit
    \/ Refresh

SpecRefresh == InitRefresh /\ [][NextRefresh]_vars

----------------------------------------------------------------------------
(* The request parsers on their own: one text of at most MaxLines lines,   *)
(* given to parse_cards_to_include and to parse_excluded_cards.            *)

\* the lines a text is made of: blank, without a number, a number alone, numbered
\* names in several spellings, a signed number, a name the catalog does not have
ParserLines ==
    { << >>,
      <<"x">>,
      <<"2">>,
      <<"x", " ", "y">>,
      <<"1", " ", "K", "n">>,
      <<"2", " ", "k", "n">>,
      <<"K", "n", " ", "2">>,
      <<"-", "1", " ", "M", "e">>,
      <<" ", "3", " ", " ", "A", "m", " ">>,
      <<"1", " ", "z", "z">> }

ParserTexts == UNION {[1..k -> ParserLines] : k \in 0..MaxLines}

InitParsers ==
    /\ packs = ReleasedPacks
    /\ cards = CardsWith(None)
    /\ unavailable = {}
    /\ route_cards = << >>
    /\ pc = "received"
    /\ \E text \in ParserTexts :
          req = [NoRequest EXCEPT !.route = "parsers", !.include = text, !.exclude = text]
    /\ excluded_cards = {}
    /\ cards_to_include = << >>
    /\ draftmancer_data = NoData
    /\ investigators_cards = << >>
    /\ basic_weaknesses_cards = << >>
    /\ player_cards = << >>
    /\ response = [kind |-> "none"]
    /\ rerun = NoRerun

\* both parsers run over the text
ParseTexts ==
    /\ pc = "received"
    /\ excluded_cards' = parse_excluded_cards(req.exclude)
    /\ cards_to_include' = parse_cards_to_include(req.include, cards)
    /\ pc' = "parsed"
    /\ UNCHANGED << packs, cards, unavailable, route_cards, req, draftmancer_data, investigators_cards,
                    basic_weaknesses_cards, player_cards, response, rerun >>

NextParsers == ParseTexts

SpecParsers == InitParsers /\ [][NextParsers]_vars

----------------------------------------------------------------------------
(* Properties.  Vocabulary shared by the properties below. *)

\* the buckets are final: add_cards_to_include_to_lists has run
Compiled == pc = "emit" \/ (pc = "done" /\ response.kind = "document")

\* the custom-card pool of convert_to_draftmancer_format is in draftmancer_data
Converted == pc \in {"investigators", "weaknesses", "players", "include"}

Buckets == << investigators_cards, basic_weaknesses_cards, player_cards >>

BucketEntries ==
    Range(investigators_cards) \cup Range(basic_weaknesses_cards) \cup Range(player_cards)

\* the catalog cards a bucket entry refers to by its collector number
CardsOfEntry(e) == {c \in Range(cards) : c.code = e.collector_number}

PositiveXp(c) == c.xp # None /\ c.xp[1] > 0

\* C1: no line of the Investigators, BasicWeaknesses or PlayerCards bucket of a
\* compilation refers to a card whose xp is greater than 0.
C1_NoXpCardInBuckets ==
    Compiled => \A e \in BucketEntries : \A c \in CardsOfEntry(e) : ~PositiveXp(c)

\* C2: after a compilation no bucket entry and no custom-card object carries a name
\* of the exclude list, compared case-insensitively.
C2_ExcludedNamesAbsent ==
    Compiled =>
        \A name \in excluded_cards :
            /\ \A e \in BucketEntries : Lower(e.name) # name
            /\ \A i \in DOMAIN draftmancer_data.cards :
                   Lower(draftmancer_data.cards[i].name) # name

\* C3: a card whose bonded_to is set is never an entry of a bucket, whatever the
\* selection and the explicit-include list.
C3_NoBondedCardInBuckets ==
    Compiled => \A e \in BucketEntries : \A c \in CardsOfEntry(e) : c.bonded_to = None

\* the (host, bonded card) pairs of the selection: the host is in a selected pack and
\* lists the code of a card of the catalog in bonded_cards
BondedPairs ==
    {<<h, b>> \in Range(cards) \X Range(cards) :
        /\ h.pack_code \in draftmancer_data.selected_pack_codes
        /\ b.code \in Range(h.bonded_cards)}

InPool(code) ==
    \E i \in DOMAIN draftmancer_data.cards : draftmancer_data.cards[i].collector_number = code

\* C4: whenever a host of a selected pack lists a bonded card that exists in
\* the catalog, the pool holds a custom-card object for the bonded card.
C4_BondedAlwaysInPool ==
    Converted => \A hb \in BondedPairs : InPool(hb[2].code)

\* no two entries of a bucket agree on the parts `same` compares
NoTwoAlike(bucket, Same(_, _)) ==
    \A i, j \in DOMAIN bucket : i # j => ~Same(bucket[i], bucket[j])

SameIdentity(a, b) ==
    a.name = b.name /\ a.set = b.set /\ a.collector_number = b.collector_number

\* C5: after a full compilation no two entries of a bucket share name, set label and
\* collector number.
C5_EntriesUnique ==
    Compiled => \A k \in 1..3 : NoTwoAlike(Buckets[k], SameIdentity)

\* the set label with AHCORE and AHRCORE taken as one set
NormalizedSet(e) == IF e.set \in {SetLabel(core), SetLabel(rcore)} THEN SetLabel(core) ELSE e.set

SameNameAndSet(a, b) == a.name = b.name /\ NormalizedSet(a) = NormalizedSet(b)

----------------------------------------------------------------------------
(* Properties of the priority resolvers, stated on SpecResolver. *)

\* the Investigators bucket holds the result of generate_investigators_cards
InvestigatorsResolved == pc \in {"weaknesses", "players", "rerun"}

\* the BasicWeaknesses bucket holds the result of generate_basic_weaknesses_cards
WeaknessesResolved == pc \in {"players", "rerun"}

SelectedCodes == Range(req.order)

\* the printings that compete in each resolver: the cards of the selected packs that
\* pass the resolver's filters
InvestigatorPrintings ==
    {c \in Range(cards) :
        c.pack_code \in SelectedCodes /\ InvestigatorCandidate(c, cards, excluded_cards)}

WeaknessPrintings ==
    {c \in Range(cards) :
        c.pack_code \in SelectedCodes /\ WeaknessCandidate(c, cards, excluded_cards)}

\* the bucket holds the entry of printing c
IsEntryOf(c, bucket) ==
    \E i \in DOMAIN bucket :
        /\ bucket[i].name = c.name
        /\ bucket[i].set = SetLabel(c.pack_code)
        /\ bucket[i].collector_number = c.code

PairOf(pack_code) ==
    LET pack == PackData(packs, pack_code) IN << pack.cycle_position, pack.position >>

\* the pair of pack a is strictly greater than the pair of pack b, lexicographically
PairGreater(a, b) ==
    \/ PairOf(a)[1] > PairOf(b)[1]
    \/ PairOf(a)[1] = PairOf(b)[1] /\ PairOf(a)[2] > PairOf(b)[2]

\* pack a is iterated before pack b in the given order
Before(order, a, b) ==
    \E i, j \in DOMAIN order : i < j /\ order[i] = a /\ order[j] = b

\* c1 and c2 are the only printings of their name among the printings
OnlyTwo(printings, c1, c2) ==
    \A c \in printings : c.name = c1.name => c \in {c1, c2}

\* C7 as stated: when core and rcore are both selected and both print a name, the
\* Investigators bucket, and likewise the BasicWeaknesses bucket, holds exactly one
\* entry of that name and it is the rcore printing.
C7_OneEntryPerNameIsRcore ==
    /\ InvestigatorsResolved =>
          \A c1, c2 \in InvestigatorPrintings :
              (c1.name = c2.name /\ c1.pack_code = core /\ c2.pack_code = rcore) =>
                  /\ IsEntryOf(c2, investigators_cards)
                  /\ \A i, j \in DOMAIN investigators_cards :
                        (investigators_cards[i].name = c1.name
                         /\ investigators_cards[j].name = c1.name) => i = j
    /\ WeaknessesResolved =>
          \A c1, c2 \in WeaknessPrintings :
              (c1.name = c2.name /\ c1.pack_code = core /\ c2.pack_code = rcore) =>
                  /\ IsEntryOf(c2, basic_weaknesses_cards)
                  /\ \A i, j \in DOMAIN basic_weaknesses_cards :
                        (basic_weaknesses_cards[i].name = c1.name
                         /\ basic_weaknesses_cards[j].name = c1.name) => i = j

\* C7 as amended: when core and rcore are both selected and both print a name, the
\* Investigators bucket holds exactly one entry of that name for the set core and rcore
\* share, and it is the rcore printing (a printing of that name in another selected pack
\* has an entry of its own); the BasicWeaknesses bucket holds exactly one entry of that
\* name and it is the rcore printing; whatever the packs' pairs and the iteration order.
C7_OneEntryPerSharedSetIsRcore ==
    /\ InvestigatorsResolved =>
          \A c1, c2 \in InvestigatorPrintings :
              (c1.name = c2.name /\ c1.pack_code = core /\ c2.pack_code = rcore) =>
                  /\ IsEntryOf(c2, investigators_cards)
                  /\ \A i, j \in DOMAIN investigators_cards :
                        (/\ SameNameAndSet(investigators_cards[i], investigators_cards[j])
                         /\ investigators_cards[i].name = c1.name
                         /\ NormalizedSet(investigators_cards[i]) = SetLabel(core)) => i = j
    /\ WeaknessesResolved =>
          \A c1, c2 \in WeaknessPrintings :
              (c1.name = c2.name /\ c1.pack_code = core /\ c2.pack_code = rcore) =>
                  /\ IsEntryOf(c2, basic_weaknesses_cards)
                  /\ \A i, j \in DOMAIN basic_weaknesses_cards :
                        (basic_weaknesses_cards[i].name = c1.name
                         /\ basic_weaknesses_cards[j].name = c1.name) => i = j

\* C7 witness: core has the strictly greater pair and is iterated after rcore, a third
\* selected pack prints the investigator too, and the buckets hold the rcore printings.
C7_Witness ==
    /\ pc = "players"
    /\ PairGreater(core, rcore)
    /\ Before(req.order, rcore, core)
    /\ \E c1, c2, c3 \in InvestigatorPrintings :
          /\ c1.name = c2.name /\ c2.name = c3.name
          /\ c1.pack_code = core /\ c2.pack_code = rcore /\ c3.pack_code = dwl
          /\ IsEntryOf(c2, investigators_cards)
          /\ IsEntryOf(c3, investigators_cards)
          /\ ~IsEntryOf(c1, investigators_cards)
    /\ \E c1, c2 \in WeaknessPrintings :
          /\ c1.name = c2.name /\ c1.pack_code = core /\ c2.pack_code = rcore
          /\ IsEntryOf(c2, basic_weaknesses_cards)

\* two printings that compete for one slot of a resolver: one name, and for the
\* Investigators resolver one normalized pack as well
Compete(c1, c2) == c1 # c2 /\ c1.name = c2.name

CompeteForPack(c1, c2) ==
    Compete(c1, c2) /\ normalize_pack_code(c1.pack_code) = normalize_pack_code(c2.pack_code)

CoreAndRcore(c1, c2) == {c1.pack_code, c2.pack_code} = {core, rcore}

\* C8 as stated: of two competing printings that are not the core and rcore pair, the
\* one whose pack has the strictly greater (cycle_position, position) pair is chosen
\* over the other, in whatever order the packs are iterated.
C8_GreaterPairWins ==
    /\ WeaknessesResolved =>
          \A c1, c2 \in WeaknessPrintings :
              (/\ Compete(c1, c2) /\ OnlyTwo(WeaknessPrintings, c1, c2)
               /\ ~CoreAndRcore(c1, c2)
               /\ PairGreater(c1.pack_code, c2.pack_code))
              => (IsEntryOf(c1, basic_weaknesses_cards)
                  /\ ~IsEntryOf(c2, basic_weaknesses_cards))
    /\ InvestigatorsResolved =>
          \A c1, c2 \in InvestigatorPrintings :
              (/\ CompeteForPack(c1, c2) /\ ~CoreAndRcore(c1, c2)
               /\ PairGreater(c1.pack_code, c2.pack_code))
              => ~IsEntryOf(c2, investigators_cards)

\* C8 as amended: of two competing printings neither of which is a printing of pack
\* rcore, the one whose pack has the strictly greater (cycle_position, position) pair
\* is chosen over the other, in whatever order the packs are iterated (in the
\* BasicWeaknesses resolver a printing of rcore is preferred to every other pack's).
C8_GreaterPairWinsWithoutRcore ==
    /\ WeaknessesResolved =>
          \A c1, c2 \in WeaknessPrintings :
              (/\ Compete(c1, c2)
               /\ c1.pack_code # rcore /\ c2.pack_code # rcore
               /\ PairGreater(c1.pack_code, c2.pack_code))
              => /\ ~IsEntryOf(c2, basic_weaknesses_cards)
                 /\ OnlyTwo(WeaknessPrintings, c1, c2) =>
                        IsEntryOf(c1, basic_weaknesses_cards)
    /\ InvestigatorsResolved =>
          \A c1, c2 \in InvestigatorPrintings :
              (/\ CompeteForPack(c1, c2)
               /\ c1.pack_code # rcore /\ c2.pack_code # rcore
               /\ PairGreater(c1.pack_code, c2.pack_code))
              => ~IsEntryOf(c2, investigators_cards)

\* C8 witness: two weakness printings outside rcore compete, the pack with the
\* strictly greater pair is iterated first, and its printing is the entry.
C8_Witness ==
    /\ pc = "players"
    /\ \E c1, c2 \in WeaknessPrintings :
          /\ Compete(c1, c2)
          /\ c1.pack_code # rcore /\ c2.pack_code # rcore
          /\ PairGreater(c1.pack_code, c2.pack_code)
          /\ Before(req.order, c1.pack_code, c2.pack_code)
          /\ IsEntryOf(c1, basic_weaknesses_cards)
          /\ PairOf(c1.pack_code)[1] = PairOf(c2.pack_code)[1]

SamePair(c1, c2) == PairOf(c1.pack_code) = PairOf(c2.pack_code)

\* C9 as stated: of two competing printings whose packs carry identical pairs and are
\* not the core and rcore pair, the one iterated first is kept and the later one never
\* replaces it.
C9_FirstSeenKeptOnTie ==
    /\ WeaknessesResolved =>
          \A c1, c2 \in WeaknessPrintings :
              (/\ Compete(c1, c2) /\ OnlyTwo(WeaknessPrintings, c1, c2)
               /\ ~CoreAndRcore(c1, c2)
               /\ SamePair(c1, c2)
               /\ Before(req.order, c1.pack_code, c2.pack_code))
              => (IsEntryOf(c1, basic_weaknesses_cards)
                  /\ ~IsEntryOf(c2, basic_weaknesses_cards))
    /\ InvestigatorsResolved =>
          \A c1, c2 \in InvestigatorPrintings :
              (/\ CompeteForPack(c1, c2) /\ ~CoreAndRcore(c1, c2)
               /\ SamePair(c1, c2)
               /\ Before(req.order, c1.pack_code, c2.pack_code))
              => ~IsEntryOf(c2, investigators_cards)

\* C9 as amended: of two competing printings whose packs carry identical pairs and
\* neither of which is a printing of pack rcore, the one iterated first is kept and
\* the later one never replaces it.
C9_FirstSeenKeptOnTieWithoutRcore ==
    /\ WeaknessesResolved =>
          \A c1, c2 \in WeaknessPrintings :
              (/\ Compete(c1, c2)
               /\ c1.pack_code # rcore /\ c2.pack_code # rcore
               /\ SamePair(c1, c2)
               /\ Before(req.order, c1.pack_code, c2.pack_code))
              => /\ ~IsEntryOf(c2, basic_weaknesses_cards)
                 /\ OnlyTwo(WeaknessPrintings, c1, c2) =>
                        IsEntryOf(c1, basic_weaknesses_cards)
    /\ InvestigatorsResolved =>
          \A c1, c2 \in InvestigatorPrintings :
              (/\ CompeteForPack(c1, c2)
               /\ c1.pack_code # rcore /\ c2.pack_code # rcore
               /\ SamePair(c1, c2)
               /\ Before(req.order, c1.pack_code, c2.pack_code))
              => ~IsEntryOf(c2, investigators_cards)

\* C9 witness: two weakness printings outside rcore compete on identical pairs, and the
\* printing of the pack iterated first is the entry.
C9_Witness ==
    /\ pc = "players"
    /\ \E c1, c2 \in WeaknessPrintings :
          /\ Compete(c1, c2)
          /\ c1.pack_code # rcore /\ c2.pack_code # rcore
          /\ SamePair(c1, c2)
          /\ Before(req.order, c1.pack_code, c2.pack_code)
          /\ IsEntryOf(c1, basic_weaknesses_cards)
          /\ ~IsEntryOf(c2, basic_weaknesses_cards)

\* C10 as stated: a second run of each resolver over the same selection, iterated in
\* any order, chooses the printings of the first run.
C10_RerunAgrees ==
    pc = "rerun" =>
        /\ rerun.investigators = investigators_cards
        /\ rerun.weaknesses = basic_weaknesses_cards

\* no two printings of one weakness outside rcore come from packs with identical pairs
NoTiedWeaknesses ==
    \A c1, c2 \in WeaknessPrintings :
        (Compete(c1, c2) /\ c1.pack_code # rcore /\ c2.pack_code # rcore) => ~SamePair(c1, c2)

\* C10 as amended: a second run of generate_investigators_cards chooses the printings
\* of the first run in whatever order the packs are iterated; a second run of
\* generate_basic_weaknesses_cards does so when the packs are iterated in the same
\* order, or when no two competing printings outside rcore come from packs with
\* identical (cycle_position, position) pairs.
C10_RerunAgreesWithoutTie ==
    pc = "rerun" =>
        /\ rerun.investigators = investigators_cards
        /\ (rerun.order = req.order \/ NoTiedWeaknesses) =>
               rerun.weaknesses = basic_weaknesses_cards

\* C10 witness: the second run iterates the packs in another order, two printings
\* outside rcore compete for a weakness and for no other reason than their pairs one
\* of them is chosen both times.
C10_Witness ==
    /\ pc = "rerun"
    /\ rerun.order # req.order
    /\ NoTiedWeaknesses
    /\ rcore \notin SelectedCodes
    /\ \E c1, c2 \in WeaknessPrintings :
          /\ Compete(c1, c2)
          /\ Before(req.order, c1.pack_code, c2.pack_code)
          /\ Before(rerun.order, c2.pack_code, c1.pack_code)
          /\ IsEntryOf(c1, rerun.weaknesses)
    /\ rerun.weaknesses = basic_weaknesses_cards
    /\ investigators_cards # << >>
    /\ rerun.investigators = investigators_cards

----------------------------------------------------------------------------
(* Properties of the cross-reference linker, stated on Spec. *)

\* the custom-card objects the pool holds for a card of the catalog
PoolObjects(code) ==
    {draftmancer_data.cards[i] : i \in {j \in DOMAIN draftmancer_data.cards :
        draftmancer_data.cards[j].collector_number = code}}

\* the selected investigators and the cards of the catalog their deck requirements key
RequirementPairs ==
    {<<x, c>> \in Range(cards) \X Range(cards) :
        /\ x.type_code = "investigator"
        /\ x.pack_code \in draftmancer_data.selected_pack_codes
        /\ c.code \in Range(x.deck_requirements)}

\* C11: for every investigator X of a selected pack and every code C under its deck
\* requirements that exists in the catalog, the pool of convert_to_draftmancer_format
\* lists C's name in X's related_cards and AddCards effect and holds a custom-card
\* object for C, also when C's pack is not selected.
C11_RequirementsLinkedAndInPool ==
    Converted =>
        \A xc \in RequirementPairs :
            /\ \E o \in PoolObjects(xc[1].code) :
                  /\ xc[2].name \in Range(o.related_cards)
                  /\ xc[2].name \in Range(o.draft_effects.AddCards)
            /\ InPool(xc[2].code)

PoolNames == {draftmancer_data.cards[i].name : i \in DOMAIN draftmancer_data.cards}

\* C12: the custom-card pool is closed under cross-references, also two or more hops
\* away from a selected pack: every name that the custom-card object of a required
\* card from an unselected pack lists in related_cards or in its AddCards effect is
\* the name of a custom-card object of the same pool.
C12_PoolClosedUnderReferences ==
    Converted =>
        \A i \in DOMAIN draftmancer_data.cards :
            draftmancer_data.cards[i].set
                \notin {SetLabel(p) : p \in draftmancer_data.selected_pack_codes}
            => /\ Range(draftmancer_data.cards[i].related_cards) \subseteq PoolNames
               /\ Range(draftmancer_data.cards[i].draft_effects.AddCards) \subseteq PoolNames

\* the cards of the catalog that have a custom-card object in the pool, with the object
PoolCards ==
    {<<c, o>> \in Range(cards) \X Range(draftmancer_data.cards) :
        o.collector_number = c.code /\ o.set = SetLabel(c.pack_code)}

BackName(c) == c.name \o <<" ", "-", " ", "b", "a", "c", "k">>

\* the object's nested back record is the one made of the given image
HasBack(c, o, image_src) ==
    /\ o.back # << >>
    /\ o.back[1].name = BackName(c)
    /\ o.back[1].image = << ARKHAMDB_BASE_URL >> \o image_src

\* the card whose code is the card's linked_to_code, if the catalog has one
LinkedCards(c) == {l \in Range(cards) : c.linked_to_code # None /\ l.code = c.linked_to_code}

\* C13 as stated: a custom card whose linked_to_code resolves in the catalog carries a
\* back record with the linked card's image, also when it has a backimagesrc; otherwise
\* one with backimagesrc set carries a back record with that image; the back record is
\* named after the front plus " - back"; no back record exists when neither exists.
C13_BackFromLinkedCard ==
    Converted =>
        \A co \in PoolCards :
            IF LinkedCards(co[1]) # {}
            THEN \E l \in LinkedCards(co[1]) : HasBack(co[1], co[2], l.imagesrc)
            ELSE IF co[1].backimagesrc # None
            THEN HasBack(co[1], co[2], co[1].backimagesrc)
            ELSE co[2].back = << >>

\* the linked cards the code follows: those whose code ends in 'b'
LinkedBacks(c) == {l \in LinkedCards(c) : EndsWithB(l.code)}

\* C13 as amended: a custom card whose linked_to_code ends in 'b' and resolves in the
\* catalog carries a back record with the linked card's image, also when it has a
\* backimagesrc; otherwise (a linked code without the suffix is not followed) one with
\* backimagesrc set carries a back record with that image; the back record is named
\* after the front plus " - back"; no back record exists when neither exists.
C13_BackFromLinkedBCard ==
    Converted =>
        \A co \in PoolCards :
            IF LinkedBacks(co[1]) # {}
            THEN \E l \in LinkedBacks(co[1]) : HasBack(co[1], co[2], l.imagesrc)
            ELSE IF co[1].backimagesrc # None
            THEN HasBack(co[1], co[2], co[1].backimagesrc)
            ELSE co[2].back = << >>

\* C13 witness: the pool holds a card with both a linked 'b' card and a backimagesrc
\* whose back shows the linked card, a card with only a backimagesrc whose back shows
\* it, and a card without a back.
C13_Witness ==
    /\ Converted
    /\ \E co \in PoolCards :
          /\ LinkedBacks(co[1]) # {} /\ co[1].backimagesrc # None
          /\ \E l \in LinkedBacks(co[1]) : HasBack(co[1], co[2], l.imagesrc)
    /\ \E co \in PoolCards :
          /\ LinkedCards(co[1]) = {} /\ co[1].backimagesrc # None
          /\ HasBack(co[1], co[2], co[1].backimagesrc)
    /\ \E co \in PoolCards :
          LinkedCards(co[1]) = {} /\ co[1].backimagesrc = None /\ co[2].back = << >>

\* the cards in scope of the conversion: from a selected pack or in the required set
ScopeCards ==
    {c \in Range(cards) :
        \/ c.pack_code \in draftmancer_data.selected_pack_codes
        \/ c.code \in required_card_codes(cards, draftmancer_data.selected_pack_codes)}

\* C14: a candidate card whose code ends in 'b' has its own custom-card object if and
\* only if no card of a selected pack or of the required set has linked_to_code equal
\* to that code; with such a front, also one in scope only as required, it is back
\* imagery only.
C14_BCardObjectIffNoFront ==
    Converted =>
        \A b \in ScopeCards :
            (EndsWithB(b.code) /\ ~PositiveXp(b)) =>
                (InPool(b.code) <=> ~\E f \in ScopeCards : f.linked_to_code = b.code)

\* the codes a card refers to through deck_requirements (investigators) and bonded_cards
ReferenceCodes(c) ==
    (IF c.type_code = "investigator" THEN c.deck_requirements ELSE << >>)
        \o SelectSeq(c.bonded_cards, LAMBDA code : code # None)

Exists(code) == \E r \in Range(cards) : r.code = code

\* the card refers to a code the catalog does not have
Dangling(c) ==
    \/ \E k \in DOMAIN ReferenceCodes(c) : ~Exists(ReferenceCodes(c)[k])
    \/ c.linked_to_code # None /\ ~Exists(c.linked_to_code)

\* the cards of selected packs that qualify for the pool whatever their references are
PrimaryCards ==
    {c \in Range(cards) :
        /\ c.pack_code \in draftmancer_data.selected_pack_codes
        /\ ~PositiveXp(c)
        /\ ~(EndsWithB(c.code)
              /\ \E f \in Range(cards) :
                    /\ f.pack_code \in draftmancer_data.selected_pack_codes
                    /\ f.linked_to_code = c.code)}

\* the list names every reference of the card that resolves and nothing else
ListsResolvable(c, list) ==
    /\ \A r \in Range(cards) :
          r.code \in Range(ReferenceCodes(c)) =>
              \E k \in DOMAIN list : list[k] \in {r.name, WithCode(r.name, r.code)}
    /\ Len(list) = Cardinality({k \in DOMAIN ReferenceCodes(c) : Exists(ReferenceCodes(c)[k])})

\* C20: when a code referenced by deck_requirements, bonded_cards or linked_to_code does
\* not exist in the catalog, the conversion raises no error, the primary card still
\* has its one custom-card object, the object lists the references that resolve and
\* only them, and a link that does not resolve leaves the back to backimagesrc.
C20_DanglingReferenceSkipped ==
    Converted =>
        /\ draftmancer_data.error = ""
        /\ \A c \in PrimaryCards :
              Dangling(c) =>
                  /\ Cardinality(PoolObjects(c.code)) = 1
                  /\ \A o \in PoolObjects(c.code) :
                        /\ o.name = c.name
                        /\ ListsResolvable(c, o.related_cards)
                        /\ ListsResolvable(c, o.draft_effects.AddCards)
                        /\ (c.linked_to_code # None /\ ~Exists(c.linked_to_code)) =>
                              IF c.backimagesrc = None THEN o.back = << >>
                              ELSE HasBack(c, o, c.backimagesrc)

\* C20 witness: the pool was built for a selection with an investigator one of whose
\* required codes is missing while others resolve, a host with a missing and a
\* resolving bonded code, and a card whose linked_to_code is missing.
C20_Witness ==
    /\ Converted
    /\ \E c \in PrimaryCards :
          /\ c.type_code = "investigator"
          /\ \E k \in DOMAIN c.deck_requirements : ~Exists(c.deck_requirements[k])
          /\ \E o \in PoolObjects(c.code) : Len(o.related_cards) > 1
    /\ \E c \in PrimaryCards :
          /\ \E k \in DOMAIN c.bonded_cards : ~Exists(c.bonded_cards[k])
          /\ \E o \in PoolObjects(c.code) : Len(o.related_cards) > 0
    /\ \E c \in PrimaryCards :
          /\ c.linked_to_code # None /\ ~Exists(c.linked_to_code)
          /\ PoolObjects(c.code) # {}

----------------------------------------------------------------------------
(* Properties of the player-card quantities, stated on Spec *)

\* the player bucket as generate_player_cards left it, before the include merge
PlayersGenerated == pc = "include"

\* the quantity chosen for a pack in the request, 1 when none was chosen
ChosenMultiplier(pack_code) ==
    LET named == {i \in DOMAIN packs : packs[i].code = pack_code}
        quantities == pack_quantities_of(req)
    IN  IF \E i \in named : packs[i].name \in DOMAIN quantities
        THEN quantities[packs[CHOOSE i \in named : packs[i].name \in DOMAIN quantities].name]
        ELSE 1

\* the sum of the quantities of the first n records that carry a name and a code and
\* pass the player filters
RECURSIVE RecordQuantity(_, _, _, _)
RecordQuantity(records, n, name, code) ==
    IF n = 0 THEN 0
    ELSE RecordQuantity(records, n - 1, name, code)
         + (IF /\ records[n].name = name
               /\ records[n].code = code
               /\ PlayerCandidate(records[n], cards, excluded_cards)
            THEN records[n].quantity[1] ELSE 0)

\* C15: the quantity of every PlayerCards entry that generate_player_cards produces is
\* the sum, over the pack-card records with the same name, pack code and collector
\* number, of the record's quantity times the pack's multiplier (1 when none was
\* chosen); and every such record of a selected pack has exactly one entry of its own
\* pack, so the same name from two selected packs gives two separate entries.
C15_QuantityIsSumTimesMultiplier ==
    PlayersGenerated =>
        /\ \A i \in DOMAIN player_cards :
              \E p \in SelectedCodes :
                  /\ player_cards[i].set = SetLabel(p)
                  /\ player_cards[i].quantity =
                        ChosenMultiplier(p)
                        * RecordQuantity(get_pack_cards(p, cards),
                                         Len(get_pack_cards(p, cards)),
                                         player_cards[i].name,
                                         player_cards[i].collector_number)
        /\ \A p \in SelectedCodes :
              \A r \in Range(get_pack_cards(p, cards)) :
                  PlayerCandidate(r, cards, excluded_cards) =>
                      Cardinality({i \in DOMAIN player_cards :
                                      /\ player_cards[i].name = r.name
                                      /\ player_cards[i].set = SetLabel(p)
                                      /\ player_cards[i].collector_number = r.code}) = 1

\* C15 witness: two selected packs print the same name, one of them twice in its card
\* list and with a multiplier above 1: the entries are separate, and the multiplied
\* pack's entry is the multiplied sum of its two records.
C15_Witness ==
    /\ PlayersGenerated
    /\ \E i, j \in DOMAIN player_cards :
          /\ player_cards[i].name = player_cards[j].name
          /\ player_cards[i].set # player_cards[j].set
          /\ \E p \in SelectedCodes :
                /\ player_cards[i].set = SetLabel(p)
                /\ ChosenMultiplier(p) > 1
                /\ Cardinality({n \in DOMAIN get_pack_cards(p, cards) :
                                   /\ get_pack_cards(p, cards)[n].name = player_cards[i].name
                                   /\ get_pack_cards(p, cards)[n].code
                                         = player_cards[i].collector_number}) > 1
                /\ player_cards[i].quantity > ChosenMultiplier(p)

\* the explicit includes of a player card whose owning pack is selected with a
\* multiplier above 1
MultipliedIncludes ==
    {i \in DOMAIN cards_to_include :
        /\ cards_to_include[i].data # << >>
        /\ cards_to_include[i].type \notin {"investigator", "basicweakness"}
        /\ cards_to_include[i].data[1].pack_code \in SelectedCodes
        /\ ChosenMultiplier(cards_to_include[i].data[1].pack_code) > 1}

\* C16: when the include list names a player card with quantity q and the card's
\* owning pack is selected with a multiplier above 1, the compiled PlayerCards entry
\* of that card has quantity q times the card's base per-pack quantity, whatever the
\* multiplier and whatever the route.
C16_IncludeQuantityTimesBase ==
    Compiled =>
        \A i \in MultipliedIncludes :
            LET info == cards_to_include[i]
            IN  \E e \in Range(player_cards) :
                    /\ e.name = info.name
                    /\ e.set = SetLabel(info.data[1].pack_code)
                    /\ e.quantity = info.quantity * info.data[1].quantity[1]
                    /\ \A o \in Range(player_cards) :
                          (o.name = e.name /\ o.set = e.set) => o = e

----------------------------------------------------------------------------
(* Properties of the routes' error handling, stated on SpecFaults *)

\* the request is answered
Answered == pc = "done"

\* the source supplies the pack list and the full card list, and the form fields of the
\* request are numbers
WellFormed ==
    /\ packs # << >>
    /\ cards # << >>
    /\ quantities_parse(req)
    /\ IsInt(req.investigatorsPerPack)

\* C17: when none of the selected pack names resolves to a pack code and the include
\* list is empty, the request is answered with the empty-selection error and with no
\* document.
C17_UnresolvedSelectionIsError ==
    (Answered /\ WellFormed
        /\ selected_pack_codes(packs, req.sets) = {} /\ BlankText(req.include)) =>
        /\ response.kind = "error"
        /\ response.error = "No sets selected and no cards to include specified"

\* C18: when the source cannot supply the full card list, the pack list of a request
\* that selects packs, or the card list of a selected pack, the request is not
\* answered with a document.
C18_NoDocumentWithoutData ==
    (Answered
        /\ \/ cards = << >>
           \/ packs = << >> /\ req.sets # {}
           \/ selected_pack_codes(packs, req.sets) \cap unavailable # {}) =>
        response.kind # "document"

\* C19: every request to /draft, /draft-now and /get-draft-content is answered with a
\* document or with one error value: no exception escapes the route.
C19_NoEscapingException ==
    Answered => response.kind \in {"document", "error"}

----------------------------------------------------------------------------
(* Properties of the request parsers, stated on SpecParsers *)

Parsed == pc = "parsed"

\* the text is an optional sign followed by digits
IntegerText(s) ==
    \E k \in 0..1 :
        /\ Len(s) > k
        /\ k = 1 => s[1] \in {"+", "-"}
        /\ \A i \in (k + 1)..Len(s) : IsDigit(s[i])

\* the positions at which the stripped line divides into an integer, a space and a name
Divisions(line) ==
    {k \in 1..Len(Strip(line)) :
        /\ Strip(line)[k] = " "
        /\ IntegerText(SubSeq(Strip(line), 1, k - 1))}

\* the line reads '<integer quantity> <name>'
WellFormedLine(line) == Divisions(line) # {}

QuantityOfLine(line) ==
    ToInt(SubSeq(Strip(line), 1, (CHOOSE k \in Divisions(line) : TRUE) - 1))

NameOfLine(line) ==
    Strip(SubSeq(Strip(line), (CHOOSE k \in Divisions(line) : TRUE) + 1, Len(Strip(line))))

\* C21: parse_cards_to_include skips every line that is not '<integer quantity> <name>'
\* and has an entry for every well-formed line of the text, keyed by the lower-cased
\* name and carrying the quantity of the last line with that name; parse_excluded_cards
\* gives, for every non-blank line, the lower-cased name after a leading integer and the
\* whole lower-cased line when there is no leading integer, and nothing else.
C21_ParsersSkipAndContinue ==
    Parsed =>
        /\ \A i \in DOMAIN req.include :
              WellFormedLine(req.include[i]) =>
                  \E k \in DOMAIN cards_to_include :
                      /\ cards_to_include[k].key = Lower(NameOfLine(req.include[i]))
                      /\ (\A j \in (i + 1)..Len(req.include) :
                              WellFormedLine(req.include[j]) =>
                                  Lower(NameOfLine(req.include[j]))
                                      # Lower(NameOfLine(req.include[i]))) =>
                            /\ cards_to_include[k].name = NameOfLine(req.include[i])
                            /\ cards_to_include[k].quantity = QuantityOfLine(req.include[i])
        /\ \A k \in DOMAIN cards_to_include :
              \E i \in DOMAIN req.include :
                  /\ WellFormedLine(req.include[i])
                  /\ cards_to_include[k].key = Lower(NameOfLine(req.include[i]))
        /\ \A k, l \in DOMAIN cards_to_include :
              cards_to_include[k].key = cards_to_include[l].key => k = l
        /\ excluded_cards =
              {IF WellFormedLine(req.exclude[i]) THEN Lower(NameOfLine(req.exclude[i]))
               ELSE Lower(Strip(req.exclude[i])) :
                  i \in {j \in DOMAIN req.exclude : Strip(req.exclude[j]) # << >>}}

\* C21 witness: a text with a malformed line before a well-formed one has been parsed:
\* the include dict holds the well-formed line and the exclude set the whole first line.
C21_Witness ==
    /\ Parsed
    /\ Len(req.include) = 2
    /\ Strip(req.include[1]) # << >> /\ ~WellFormedLine(req.include[1])
    /\ WellFormedLine(req.include[2])
    /\ Len(cards_to_include) = 1
    /\ Lower(Strip(req.exclude[1])) \in excluded_cards

----------------------------------------------------------------------------
(* Properties of the routing into buckets, stated on SpecFaults *)

\* the bucket the routing rule names for a card: investigator type first, then
\* basicweakness subtype, then the rest without restrictions; "" for none
RoutedTo(c) ==
    IF c.type_code = "investigator" THEN "Investigators"
    ELSE IF c.subtype_code = "basicweakness" THEN "BasicWeaknesses"
    ELSE IF ~c.restrictions THEN "PlayerCards"
    ELSE ""

\* the buckets that hold an entry with the card's code and set
BucketsOf(c) ==
    {b \in {"Investigators", "BasicWeaknesses", "PlayerCards"} :
        \E e \in Range(CASE b = "Investigators"   -> investigators_cards
                          [] b = "BasicWeaknesses" -> basic_weaknesses_cards
                          [] OTHER                 -> player_cards) :
            e.collector_number = c.code /\ e.set = SetLabel(c.pack_code)}

\* C22: after the three generators, every card is in no other bucket than the one the
\* routing rule names for it (investigator type first, then basicweakness subtype,
\* then the rest without a non-empty restrictions field): no card code is in two
\* buckets and no card with restrictions is in PlayerCards.
C22_OneBucketByRoutingRule ==
    PlayersGenerated =>
        \A c \in Range(cards) :
            /\ BucketsOf(c) \subseteq {RoutedTo(c)}
            /\ c.restrictions => "PlayerCards" \notin BucketsOf(c)

----------------------------------------------------------------------------
(* Properties of the compiled document, stated on Spec *)

\* no entry of the bucket comes before an earlier one in the order of card names and,
\* when the sets count, of set labels among entries of one name
InOrder(bucket, with_set) ==
    \A i, j \in DOMAIN bucket :
        i < j =>
            /\ ~StrLess(bucket[j].name, bucket[i].name)
            /\ (with_set /\ bucket[j].name = bucket[i].name) =>
                  ~StrLess(bucket[j].set, bucket[i].set)

\* C23: in the compiled document, which has the explicit includes added, the entries of
\* each bucket are in lexicographic order of card name and, in the Investigators
\* bucket, secondarily of set label.
C23_BucketsInOrder ==
    Compiled =>
        /\ InOrder(investigators_cards, TRUE)
        /\ InOrder(basic_weaknesses_cards, FALSE)
        /\ InOrder(player_cards, FALSE)

----------------------------------------------------------------------------
(* Properties of the names of bonded cards, stated on SpecPool *)

\* the bonded cards that have an object in the pool and share the card's name
BondedNamesakes(c) ==
    {d \in Range(cards) :
        /\ d.bonded_to # None
        /\ d.name = c.name
        /\ \E o \in Range(draftmancer_data.cards) : <<d, o>> \in PoolCards}

\* C24: in the pool, the object of a bonded card is named '<name> (<code>)' exactly
\* when two or more bonded cards of the pool share its name and by the bare name
\* otherwise; and the object of a host lists each bonded card that has an object, in
\* related_cards and in AddCards, under the name of that object.
C24_BondedNamesUniqueAndShared ==
    Converted =>
        /\ \A co \in PoolCards :
              co[1].bonded_to # None =>
                  co[2].name = IF Cardinality(BondedNamesakes(co[1])) >= 2
                               THEN co[1].name \o <<" ", "(">> \o co[1].code \o <<")">>
                               ELSE co[1].name
        /\ \A host \in PoolCards :
              \A b \in PoolCards :
                  (b[1].code \in Range(host[1].bonded_cards) /\ b[1].bonded_to # None) =>
                      /\ b[2].name \in Range(host[2].related_cards)
                      /\ b[2].name \in Range(host[2].draft_effects.AddCards)

\* C24 witness: the pool holds two bonded cards of one name, both renamed with their
\* codes, and their host, which lists both.
C24_Witness ==
    /\ Converted
    /\ \E host \in PoolCards, b1 \in PoolCards, b2 \in PoolCards :
          /\ b1[1].code # b2[1].code
          /\ b1[1].name = b2[1].name
          /\ b1[1].bonded_to # None /\ b2[1].bonded_to # None
          /\ {b1[1].code, b2[1].code} \subseteq Range(host[1].bonded_cards)
          /\ b1[2].name # b2[2].name
          /\ {b1[2].name, b2[2].name} \subseteq Range(host[2].related_cards)

----------------------------------------------------------------------------
(* Properties of the CustomCards block, stated on Spec *)

\* C25: in a compiled document no two objects of the CustomCards block have the same
\* name, whichever packs are selected and whichever cards are included.
C25_OneObjectPerName ==
    Compiled =>
        \A i \in DOMAIN draftmancer_data.cards :
            \A j \in DOMAIN draftmancer_data.cards :
                draftmancer_data.cards[i].name = draftmancer_data.cards[j].name => i = j

\* C26: the object built for an included card is the object the conversion builds for
\* that card: two objects of a compiled document that stand for the same card (same
\* set label and collector number) have the same fields with the same values.
C26_IncludedObjectAsConverted ==
    Compiled =>
        \A o1 \in Range(draftmancer_data.cards) :
            \A o2 \in Range(draftmancer_data.cards) :
                (o1.set = o2.set /\ o1.collector_number = o2.collector_number) => o1 = o2

\* C27: every entry of the three buckets of a compiled document has an object in the
\* CustomCards block with its name, set label and collector number.
C27_EveryLineHasObject ==
    Compiled =>
        \A e \in BucketEntries :
            \E o \in Range(draftmancer_data.cards) :
                /\ o.name = e.name
                /\ o.set = e.set
                /\ o.collector_number = e.collector_number

----------------------------------------------------------------------------
(* Properties that compare the routes, stated on Spec *)

\* the answer of a route to the request at hand when every stage reads the card list
\* main_cards, with to_include the parsed include list
Compilation(route, main_cards, to_include) ==
    LET data == IF route = "/get-draft-content" /\ req.sets = {}
                THEN NoData
                ELSE convert_to_draftmancer_format(main_cards, req.sets, packs)
        loaded == Loaded(req.order, unavailable)
        out == add_cards_to_include_to_lists(
                   to_include,
                   generate_investigators_cards(loaded, excluded_cards, main_cards, packs),
                   generate_basic_weaknesses_cards(loaded, excluded_cards, main_cards, packs),
                   generate_player_cards(loaded, pack_quantities_of(req), excluded_cards,
                                         main_cards, packs),
                   main_cards,
                   IF route = "/draft" THEN << >> ELSE data.cards)
    IN  IF data.error # ""
        THEN [kind |-> "error", error |-> data.error]
        ELSE [kind            |-> "document",
              CustomCards     |-> data.cards \o out.custom,
              Investigators   |-> out.investigators,
              BasicWeaknesses |-> out.weaknesses,
              PlayerCards     |-> out.player]

\* the answer of a route to the request at hand, once its fields are parsed
AnswerOf(route) == Compilation(route, cards, cards_to_include)

\* C28: the document a route answers with is the document each of the three routes
\* gives for the same catalog and the same request.
C28_RoutesAgree ==
    (Answered /\ response.kind = "document") =>
        \A route \in Routes : AnswerOf(route) = response

----------------------------------------------------------------------------
(* Properties of the include merge, stated on SpecMerge *)

\* the lower-cased names the request includes
IncludedKeys == {cards_to_include[i].key : i \in DOMAIN cards_to_include}

\* C29: the include merge leaves every bucket entry of a card whose name is not an
\* included name as it was: same place, same quantity, same text, also when that
\* name contains an included name.
C29_IncludeTouchesOnlyItsEntry ==
    [][(pc = "include" /\ pc' = "emit") =>
          \A k \in 1..3 :
              \A i \in DOMAIN Buckets[k] :
                  Lower(Buckets[k][i].name) \notin IncludedKeys =>
                      /\ i \in DOMAIN Buckets'[k]
                      /\ Buckets'[k][i] = Buckets[k][i]]_vars

----------------------------------------------------------------------------
(* Properties of the routes beside a refresh, stated on SpecRefresh *)

\* C30: the document a route answers with is the compilation of the request over one
\* card list, the same for the include lookup, the pool and the three generators,
\* also when the caches are refreshed while the request is served.
C30_OneCatalogPerCompilation ==
    (Answered /\ response.kind = "document") =>
        \E catalog \in RefreshCatalogs :
            response = Compilation(req.route, catalog,
                                   parse_cards_to_include(req.include, catalog))

====
